---- MODULE Spec2Model ----
(***************************************************************************)
(* Model of the MQTT ingestion core of gumband-public-shared-lib:          *)
(*   - DefaultCacheLock and HardwareRegistrationCache                      *)
(*       (hardwareRegistrationCache/defaultHardwareRegistrationCache.ts)   *)
(*   - lockRegistrationCacheAndPerformAction (mqttEventHandler/common.ts)  *)
(*   - MqttApiV2, the V2 dispatcher (mqttEventHandler/mqttApiV2/index.ts)  *)
(*   - MQTTEventHandler, the shell (mqttEventHandler/index.ts)             *)
(* Every asynchronous call is a task; a task step is the code that runs    *)
(* between two suspension points (await of a cache call, of a lock, of a   *)
(* timer).  Awaits of purely local work (payload parsing) are folded into  *)
(* the step that follows them.                                             *)
(***************************************************************************)
EXTENDS Integers, Sequences, FiniteSets, TLC

\* ------------------------------------------------------------------ bounds
MaxNumProps == 2      \* largest num_props announced by an info payload
MaxIndex == 1         \* property indexes are 0..MaxIndex
MaxTasks == 2         \* asynchronous calls in flight at the same time
MaxMsgs == 3          \* messages delivered by the transport in one run
MaxEarlyMsgs == 4     \* the same, in the runs about the pending-message buffer
MaxCallers == 3       \* concurrent callers of one DefaultCacheLock key
MaxBatch == 2         \* dispatcher operations started between two moments of rest

Components == {"c1"}
\* the components of the runs in which two components are active
AllComponents == Components \cup {"c2"}
Sources == {"system", "app"}
Paths == {"p1", "p2"}
Indexes == 0..MaxIndex
NumPropsRange == 0..MaxNumProps
Tasks == 1..MaxTasks

\* ----------------------------------------------------------------- values
NoVersion == 0        \* apiVersion undefined
V2ApiVersion == 2
NoInfo == -1          \* info undefined; a cached info is its num_props

\* PartialSystemRegistration / PartialAppRegistration.  defined = FALSE is
\* the JavaScript value undefined (the key was deleted).  isRegistered is
\* only ever read through "=== true", so undefined and false are one value.
UndefSub == [defined |-> FALSE, info |-> NoInfo, properties |-> {}, isRegistered |-> FALSE]
NewSub == [defined |-> TRUE, info |-> NoInfo, properties |-> {}, isRegistered |-> FALSE]

\* PartialHardwareManifest; defined = FALSE: registrationHash has no such key
UndefManifest == [defined |-> FALSE, apiVersion |-> NoVersion, system |-> UndefSub, app |-> UndefSub]

\* a cache call either returns (ok) or throws; h is the entry it leaves behind
Returned(h) == [ok |-> TRUE, h |-> h]
Thrown(h) == [ok |-> FALSE, h |-> h]

\* ---------------------------------------------- HardwareRegistrationCache
initCachedHardwareManifest(h) ==
    IF h.defined THEN h
    ELSE [defined |-> TRUE, apiVersion |-> NoVersion, system |-> NewSub, app |-> NewSub]

cacheMQTTAPIVersion(h, v) ==
    Returned([initCachedHardwareManifest(h) EXCEPT !.apiVersion = v])

getMQTTAPIVersion(h) == h.apiVersion

\* cacheSystemInfo / cacheApplicationInfo: registrationHash[c][source].info = info
cacheInfo(h, s, n) ==
    LET g == initCachedHardwareManifest(h) IN
    IF g[s].defined THEN Returned([g EXCEPT ![s].info = n]) ELSE Thrown(g)

\* getSystemInfo is registrationHash[c]?.system?.info and never throws;
\* getApplicationInfo is registrationHash[c]?.app.info and throws on a deleted app
getInfo(h, s) ==
    IF ~h.defined THEN [ok |-> TRUE, v |-> NoInfo]
    ELSE IF h[s].defined THEN [ok |-> TRUE, v |-> h[s].info]
    ELSE IF s = "system" THEN [ok |-> TRUE, v |-> NoInfo]
    ELSE [ok |-> FALSE, v |-> NoInfo]

\* properties[propertyTopic] = registration: the path is the key
cacheProperty(h, s, path, index, settable) ==
    LET g == initCachedHardwareManifest(h) IN
    IF g[s].defined
    THEN Returned([g EXCEPT ![s].properties =
                      {r \in @ : r.path # path}
                      \cup {[path |-> path, index |-> index, settable |-> settable]}])
    ELSE Thrown(g)

getProperty(h, s, path) ==
    IF h.defined /\ h[s].defined
    THEN [ok |-> TRUE, v |-> {r \in h[s].properties : r.path = path}]
    ELSE [ok |-> FALSE, v |-> {}]

getAllProperties(h, s) ==
    IF h.defined /\ h[s].defined
    THEN [ok |-> TRUE, v |-> h[s].properties]
    ELSE [ok |-> FALSE, v |-> {}]

clearProperties(h, s) ==
    LET g == initCachedHardwareManifest(h) IN
    IF g[s].defined THEN Returned([g EXCEPT ![s].properties = {}]) ELSE Thrown(g)

setRegistered(h, s, b) ==
    LET g == initCachedHardwareManifest(h) IN
    IF g[s].defined THEN Returned([g EXCEPT ![s].isRegistered = b]) ELSE Thrown(g)

\* a mutant of isRegistered: the flag always reads false
isRegistered_alwaysFalse(h, s) ==
    IF h.defined /\ h[s].defined
    THEN [ok |-> TRUE, v |-> FALSE]
    ELSE [ok |-> FALSE, v |-> FALSE]
isRegistered(h, s) ==
    IF h.defined /\ h[s].defined
    THEN [ok |-> TRUE, v |-> h[s].isRegistered]
    ELSE [ok |-> FALSE, v |-> FALSE]

\* delete registrationHash[c][source]; registrationHash[c][source].isRegistered = false
\* the assignment dereferences the key that was just deleted
clearInfoAndRegistered(h, s) ==
    IF ~h.defined THEN Thrown(h) ELSE Thrown([h EXCEPT ![s] = UndefSub])

\* Promise.all([clearInfoAndRegistered(..), clearProperties(..)]): both calls
\* are made, in this order, before the first rejection is observed
clearCachedValues(h, s) ==
    LET r1 == clearInfoAndRegistered(h, s)
        r2 == clearProperties(r1.h, s)
    IN [ok |-> r1.ok /\ r2.ok, h |-> r2.h]

\* Promise.all([clearProperties(..), setRegistered(.., false)])
clearPropertiesAndRegistered(h, s) ==
    LET r1 == clearProperties(h, s)
        r2 == setRegistered(r1.h, s, FALSE)
    IN [ok |-> r1.ok /\ r2.ok, h |-> r2.h]

clearAllCacheForComponentId(h) == Returned(UndefManifest)

\* ----------------------------------------------------------------- state
VARIABLES
    registrationHash,      \* HardwareRegistrationCache.registrationHash
    pendingMessages,       \* per component FIFO of cachePendingMessage
    heldLocks,             \* DefaultCacheLock.heldLocks of cache.locks[source]
    registrationTimeouts,  \* MqttApiV2.registrationTimeouts: armed timers
    tasks,                 \* the asynchronous calls in flight
    emitted,               \* events emitted by the latest step, in order
    rejected,              \* the latest step rejected an onMessage promise
    delivered,             \* messages the transport has delivered so far
    timeouts,              \* DefaultCacheLock.timeouts: the latest timer per key
    lockTimers,            \* auto-release timers that are armed
    callers,               \* direct callers of DefaultCacheLock.lock / unlock
    base,                  \* history: the cache when the operations of batch started
    batch,                 \* history: the operations started since the cache was last at rest
    helperCalls,           \* direct calls of lockRegistrationCacheAndPerformAction
    setCall,               \* the call of setPropertyValue in flight, or its outcome
    parserCall             \* the call of a V2PacketParser method, or its outcome

\* ------------------------------------------------------------- messages
\* seq is the arrival number the transport gave the message (0: not numbered)
\* settable is the settable flag of a register/prop payload
Msg(topic, source, body, n, path, index) ==
    [topic |-> topic, source |-> source, body |-> body, n |-> n, path |-> path,
     index |-> index, seq |-> 0, settable |-> TRUE]

NullMsg == Msg("null", "system", "empty", 0, "", 0)
SysInfoMsg(n) == Msg("info", "system", "valid", n, "", 0)
\* the will message: zero-length payload on system/info
WillMsg == Msg("info", "system", "empty", 0, "", 0)
\* JSON that carries api_ver 2 but fails V2PacketParser.parseSystemInfo
InvalidSysInfoMsg == Msg("info", "system", "invalid", 0, "", 0)
\* JSON whose api_ver is a version this build does not know
UnsupportedSysInfoMsg == Msg("info", "system", "unsupported", 0, "", 0)
AppInfoMsg(n) == Msg("info", "app", "valid", n, "", 0)
InvalidAppInfoMsg == Msg("info", "app", "invalid", 0, "", 0)
RegPropMsg(s, p, i) == Msg("register/prop", s, "valid", 0, p, i)
\* the registration of a property the hardware does not let be set
ReadOnlyRegPropMsg(s, p, i) == [RegPropMsg(s, p, i) EXCEPT !.settable = FALSE]
\* <source>/prop/pub/:/<path>
PubMsg(s, p) == Msg("prop/pub", s, "valid", 0, p, 0)
\* the same with a payload that parsePropertyValue rejects
BadPubMsg(s, p) == Msg("prop/pub", s, "invalid", 0, p, 0)
\* not a message: the argument of a registration timer callback
TimerMsg(s) == Msg("timer", s, "empty", 0, "", 0)

\* the registration traffic of a component
Messages ==
    {SysInfoMsg(n) : n \in NumPropsRange} \cup {WillMsg, InvalidSysInfoMsg}
    \cup {AppInfoMsg(n) : n \in NumPropsRange}
    \cup {RegPropMsg(s, p, i) : s \in Sources, p \in Paths, i \in Indexes}

\* the traffic of a component whose messages may arrive before its identity
EarlyMessages ==
    {SysInfoMsg(0), WillMsg, InvalidSysInfoMsg, AppInfoMsg(1),
     RegPropMsg("app", "p1", 0), PubMsg("app", "p1")}

\* the traffic of the runs that start the operations two at a time
PairMessages ==
    {SysInfoMsg(0), SysInfoMsg(1), WillMsg, InvalidSysInfoMsg, AppInfoMsg(1), AppInfoMsg(2),
     RegPropMsg("system", "p1", 0)}
    \cup {RegPropMsg("app", p, i) : p \in Paths, i \in Indexes}

\* the traffic of the runs about property values: two properties of the app
\* source, one of them not settable, their value publications and what
\* creates and clears the component's manifest
PropMessages ==
    {SysInfoMsg(0), WillMsg, RegPropMsg("app", "p1", 0), ReadOnlyRegPropMsg("app", "p2", 1),
     PubMsg("app", "p1"), PubMsg("app", "p2")}

\* isMQTTInitialRegistrationTopic: only system/info
isMQTTInitialRegistrationTopic(m) == m.topic = "info" /\ m.source = "system"

\* --------------------------------------------------------------- events
Ev(type, c, source, flag, path) ==
    [type |-> type, c |-> c, source |-> source, flag |-> flag, path |-> path]
ReceivedEv(c, m) == Ev("RECEIVED_MSG", c, m.source, FALSE, m.topic)
IsIdentityReceivedEv(e) == e.type = "RECEIVED_MSG" /\ e.path = "info" /\ e.source = "system"
OnlineEv(c, online) == Ev("ONLINE", c, "system", online, "")
RegisteredEv(c, s, registered) == Ev("REGISTERED", c, s, registered, "")
PropUpdateEv(c, s, p) == Ev("PROP_UPDATE", c, s, FALSE, p)

\* ---------------------------------------------------------------- tasks
\* pc    where the call is suspended
\* mode  direct: onMessage with a cached version; identity: onMessage that
\*       parsed the version; drain: handlePendingMessages; timer: a
\*       registration timer callback
\* op    the MqttApiV2 operation in progress
IdleTask ==
    [pc |-> "idle", c |-> "c1", msg |-> NullMsg, mode |-> "direct", op |-> "none",
     ver |-> NoVersion, want |-> {}, got |-> {}, stage |-> 1, wasReg |-> FALSE,
     regProps |-> {}, info |-> NoInfo, next |-> NullMsg, timeout |-> FALSE]

\* the locals of one MqttApiV2 operation are dropped when it ends
ClearOp(tk) ==
    [tk EXCEPT !.op = "none", !.want = {}, !.got = {}, !.stage = 1, !.wasReg = FALSE,
               !.regProps = {}, !.info = NoInfo, !.msg = NullMsg]

\* the component's slice of the state a task works on
Slice(c) ==
    [h |-> registrationHash[c], pend |-> pendingMessages[c],
     held |-> heldLocks, timers |-> registrationTimeouts]

Out(tk, L, ev) == [tk |-> tk, L |-> L, ev |-> ev, rej |-> FALSE]

\* --------------------------------------------------------- DefaultCacheLock
\* lock(): while (heldLocks.has(c)) await waitMs(100); heldLocks.add(c)
\* mutant: the while loop of lock() tests the wrong lock's set
lockIsFree_otherSet(held, s, c) == c \notin held[IF s = "system" THEN "app" ELSE "system"]
\* mutant: one lock per source, whatever the component
lockIsFree_anyComponent(held, s, c) == held[s] = {}
lockIsFree(held, s, c) == c \notin held[s]
lock(held, s, c) == [held EXCEPT ![s] = @ \cup {c}]
\* unlock(): clearTimeout(timeouts.get(c)); heldLocks.delete(c)
unlock(held, s, c) == [held EXCEPT ![s] = @ \ {c}]

\* ----------------------------------- lockRegistrationCacheAndPerformAction
\* releaseLocks(): unlock every lock this call acquired
\* mutant: every lock of the component is released, acquired by this call or not
releaseLocks_all(tk, held) == [s \in Sources |-> held[s] \ {tk.c}]
releaseLocks(tk, held) == [s \in Sources |-> IF s \in tk.got THEN held[s] \ {tk.c} ELSE held[s]]

\* the operation is over: back to the shell
\*   handlePendingMessages reads the next pending message, everything else settles
EndOp(tk) ==
    IF tk.mode \in {"identity", "drain"}
    THEN [ClearOp(tk) EXCEPT !.pc = "afterOp"]
    ELSE IdleTask

\* the action returned or threw: releaseLocks(), then the operation is over
\* mutant: the events of the last step are not emitted
Release_silent(tk, L, ev) == Out(EndOp(tk), [L EXCEPT !.held = releaseLocks(tk, L.held)], <<>>)
Release(tk, L, ev) == Out(EndOp(tk), [L EXCEPT !.held = releaseLocks(tk, L.held)], ev)

\* setRegistrationTimeoutForComponentIdAndSource: clearTimeout, then setTimeout
setRegistrationTimeout(timers, s, c) == [timers EXCEPT ![s] = @ \cup {c}]
clearRegistrationTimeout(timers, s, c) == [timers EXCEPT ![s] = @ \ {c}]

\* ------------------------------------------------ pending-message buffer
\* cachePendingMessage / getNextPendingMessage: a FIFO per component, null
\* when empty; it is part of the per-component state that clear-all destroys
cachePendingMessage(pend, m) == Append(pend, m)
getNextPendingMessage(pend) ==
    IF pend = <<>> THEN [msg |-> NullMsg, rest |-> pend]
    ELSE [msg |-> Head(pend), rest |-> Tail(pend)]
clearPendingMessages(pend) == <<>>

\* ------------------------------------------------------------- MqttApiV2
\* handlePropertyRegistration, the forEach over registeredProps: a cached
\* record conflicts when exactly one of path and index matches
\* mutant: only the topic check is made, the index check is forgotten
propertyConflicts_noIndexCheck(regProps, path, index) ==
    \E r \in regProps : r.path = path /\ r.index # index
propertyConflicts(regProps, path, index) ==
    \E r \in regProps : \/ (r.index = index /\ r.path # path)
                        \/ (r.path = path /\ r.index # index)

\* handleAppInfo after the stray-registration check: parse, cacheApplicationInfo
appInfoParseAndCache(tk, L, ev) ==
    IF tk.msg.body # "valid" THEN Release(tk, L, ev)
    ELSE LET r == cacheInfo(L.h, "app", tk.msg.n) IN
         IF r.ok THEN Out([tk EXCEPT !.pc = "ai3"], [L EXCEPT !.h = r.h], ev)
         ELSE Release(tk, [L EXCEPT !.h = r.h], ev)

\* handlePropertyRegistration after the stray-registration check: parse, getAllProperties
regPropParseAndRead(tk, L, ev) ==
    IF tk.msg.body # "valid" THEN Release(tk, L, ev)
    ELSE LET r == getAllProperties(L.h, tk.msg.source) IN
         IF r.ok THEN Out([tk EXCEPT !.pc = "rp3", !.regProps = r.v], L, ev)
         ELSE Release(tk, L, ev)

\* completeSuccessfulRegistration up to its await: setRegistered(c, source, true)
\* mutant: the flag is not written
completeSuccessfulRegistration_noFlag(tk, L, s, pcNext) ==
    Out([tk EXCEPT !.pc = pcNext], L, <<>>)
completeSuccessfulRegistration(tk, L, s, pcNext) ==
    LET r == setRegistered(L.h, s, TRUE) IN
    IF r.ok THEN Out([tk EXCEPT !.pc = pcNext], [L EXCEPT !.h = r.h], <<>>)
    ELSE Release(tk, [L EXCEPT !.h = r.h], <<>>)

\* handlePropertyTopic: action = subTopics.at(-1), the last level of the path
\* after <source>/prop/pub/:/ (the paths of the model have one level)
actionOf(path) == path
UnhandledActions == {"set", "get"}

\* the first segment of the action, run once every requested lock is acquired
Locked(tk, L, ev) ==
    LET c == tk.c
        s == tk.msg.source
    IN
    CASE tk.op \in {"will", "badinfo"} /\ tk.stage = 1 ->
            \* clearAllCacheForComponentId under {system, app}
            LET r == clearAllCacheForComponentId(L.h) IN
            Out([tk EXCEPT !.pc = "cleared"],
                [L EXCEPT !.h = r.h, !.pend = clearPendingMessages(@)], ev)
      [] tk.op = "badinfo" /\ tk.stage = 2 ->
            \* systemInfo was never assigned: systemInfo.api_ver throws
            Release(tk, L, ev)
      [] tk.op = "sysinfo" ->
            LET r == cacheMQTTAPIVersion(L.h, V2ApiVersion) IN
            Out([tk EXCEPT !.pc = "si2"], [L EXCEPT !.h = r.h], ev)
      [] tk.op \in {"appinfo", "regprop", "timeout"} ->
            LET r == isRegistered(L.h, s) IN
            IF r.ok
            THEN Out([tk EXCEPT !.wasReg = r.v,
                                !.pc = CASE tk.op = "appinfo" -> "ai1"
                                         [] tk.op = "regprop" -> "rp1"
                                         [] OTHER -> "to1"], L, ev)
            ELSE Release(tk, L, ev)

\* lockRegistrationCacheAndPerformAction up to the action: every requested
\* lock that is free is taken in the calling step; the call waits for the rest
tryLocks(tk, L, ev) ==
    LET free == {s \in tk.want : lockIsFree(L.held, s, tk.c)}
        held1 == [s \in Sources |-> IF s \in free THEN L.held[s] \cup {tk.c} ELSE L.held[s]]
        tk1 == [tk EXCEPT !.got = free]
        L1 == [L EXCEPT !.held = held1]
    IN IF free = tk.want THEN Locked(tk1, L1, ev)
       ELSE Out([tk1 EXCEPT !.pc = "lockWait"], L1, ev)

\* MqttApiV2.onMessage(c, topic, payload) up to its first suspension
Entry(tk0, L, m) ==
    LET c == tk0.c
        tk == [tk0 EXCEPT !.msg = m]
        rcv == <<ReceivedEv(c, m)>>
    IN
    CASE m.topic = "info" /\ m.source = "system" /\ m.body = "empty" ->
            tryLocks([tk EXCEPT !.op = "will", !.want = Sources], L,
                     rcv \o <<OnlineEv(c, FALSE)>>)
      [] m.topic = "info" /\ m.source = "system" /\ m.body \in {"invalid", "unsupported"} ->
            \* parseSystemInfo throws: validateDeviceApiVersion accepts 2 only
            tryLocks([tk EXCEPT !.op = "badinfo", !.want = Sources], L,
                     rcv \o <<OnlineEv(c, TRUE)>>)
      [] m.topic = "info" /\ m.source = "system" /\ m.body = "valid" ->
            tryLocks([tk EXCEPT !.op = "sysinfo", !.want = {"system"}], L,
                     rcv \o <<OnlineEv(c, TRUE)>>)
      [] m.topic = "info" /\ m.source = "app" ->
            tryLocks([tk EXCEPT !.op = "appinfo", !.want = {"app"}], L, rcv)
      [] m.topic = "register/prop" ->
            tryLocks([tk EXCEPT !.op = "regprop", !.want = {m.source}], L, rcv)
      [] m.topic = "prop/pub" ->
            \* handlePropertyTopic: a last level of set or get is not handled;
            \* handlePropertyValueUpdate: getProperty without any lock
            LET r == getProperty(L.h, m.source, m.path) IN
            IF actionOf(m.path) \notin UnhandledActions /\ r.ok /\ r.v # {}
            THEN Out([tk EXCEPT !.op = "pub", !.pc = "pv1"], L, rcv)
            ELSE Out(EndOp(tk), L, rcv)

\* the code a suspended MqttApiV2 operation runs when it resumes
DispatcherStep(tk, L) ==
    LET c == tk.c
        s == tk.msg.source
    IN
    CASE tk.pc = "cleared" ->
            \* the clear-all action returned: releaseLocks(); a will is over, an
            \* unparsable system/info goes on to its second lock-and-perform
            LET L1 == [L EXCEPT !.held = releaseLocks(tk, L.held)] IN
            IF tk.op = "will" THEN Out(EndOp(tk), L1, <<>>)
            ELSE Out([tk EXCEPT !.pc = "badinfo2", !.stage = 2, !.want = {}, !.got = {}], L1, <<>>)
      [] tk.pc = "badinfo2" ->
            tryLocks([tk EXCEPT !.want = {"system"}], L, <<>>)
      [] tk.pc = "si2" ->
            LET r == cacheInfo(L.h, "system", tk.msg.n) IN
            IF r.ok THEN Out([tk EXCEPT !.pc = "si3"], [L EXCEPT !.h = r.h], <<>>)
            ELSE Release(tk, [L EXCEPT !.h = r.h], <<>>)
      [] tk.pc \in {"si3", "ai3"} ->
            IF tk.msg.n = 0
            THEN completeSuccessfulRegistration(tk, L, s, IF tk.pc = "si3" THEN "si4" ELSE "ai4")
            ELSE Release(tk, [L EXCEPT !.timers = setRegistrationTimeout(@, s, c)], <<>>)
      [] tk.pc \in {"si4", "ai4", "rp6"} ->
            Release(tk, L, <<RegisteredEv(c, s, TRUE)>>)
      [] tk.pc = "ai1" ->
            IF tk.wasReg
            THEN LET r == clearCachedValues(L.h, "app") IN
                 IF r.ok THEN Out([tk EXCEPT !.pc = "ai2"], [L EXCEPT !.h = r.h], <<>>)
                 ELSE Release(tk, [L EXCEPT !.h = r.h], <<>>)
            ELSE appInfoParseAndCache(tk, L, <<>>)
      [] tk.pc = "ai2" ->
            appInfoParseAndCache(tk, L, <<RegisteredEv(c, "app", FALSE)>>)
      [] tk.pc = "rp1" ->
            IF tk.wasReg
            THEN LET r == clearPropertiesAndRegistered(L.h, s) IN
                 IF r.ok THEN Out([tk EXCEPT !.pc = "rp2"], [L EXCEPT !.h = r.h], <<>>)
                 ELSE Release(tk, [L EXCEPT !.h = r.h], <<>>)
            ELSE regPropParseAndRead(tk, L, <<>>)
      [] tk.pc = "rp2" ->
            regPropParseAndRead(tk, L, <<RegisteredEv(c, s, FALSE)>>)
      [] tk.pc = "rp3" ->
            IF propertyConflicts(tk.regProps, tk.msg.path, tk.msg.index)
            THEN Release(tk, L, <<>>)
            ELSE LET r == cacheProperty(L.h, s, tk.msg.path, tk.msg.index, tk.msg.settable) IN
                 IF r.ok THEN Out([tk EXCEPT !.pc = "rp4"], [L EXCEPT !.h = r.h], <<>>)
                 ELSE Release(tk, [L EXCEPT !.h = r.h], <<>>)
      [] tk.pc = "rp4" ->
            LET r == getInfo(L.h, s) IN
            IF r.ok THEN Out([tk EXCEPT !.pc = "rp5", !.info = r.v], L, <<>>)
            ELSE Release(tk, L, <<>>)
      [] tk.pc = "rp5" ->
            \* sourceInfo?.num_props === registeredProps.length + 1
            IF tk.info = Cardinality(tk.regProps) + 1
            THEN completeSuccessfulRegistration(
                     tk, [L EXCEPT !.timers = clearRegistrationTimeout(@, s, c)], s, "rp6")
            ELSE Release(tk, L, <<>>)
      [] tk.pc = "to1" ->
            IF tk.wasReg THEN Release(tk, L, <<>>)
            ELSE LET r == getInfo(L.h, s) IN
                 IF r.ok THEN Out([tk EXCEPT !.pc = "to2", !.info = r.v], L, <<>>)
                 ELSE Release(tk, L, <<>>)
      [] tk.pc = "to2" ->
            IF tk.info = NoInfo THEN Release(tk, L, <<>>)
            ELSE LET r == getAllProperties(L.h, s) IN
                 IF r.ok THEN Out([tk EXCEPT !.pc = "to3", !.regProps = r.v], L, <<>>)
                 ELSE Release(tk, L, <<>>)
      [] tk.pc = "to3" ->
            Release(tk, L, IF tk.info # Cardinality(tk.regProps)
                           THEN <<RegisteredEv(c, s, FALSE)>> ELSE <<>>)
      [] tk.pc = "pv1" ->
            \* parsePropertyValue and jsonFormatPropertyValue, then the event; a
            \* payload that does not parse is logged
            Out(EndOp(tk), L, IF tk.msg.body = "valid" THEN <<PropUpdateEv(c, s, tk.msg.path)>>
                              ELSE <<>>)

\* ------------------------------------------------------ MQTTEventHandler
\* getApiVersionFromRegistrationTopic: JSON.parse of the payload, then
\* isApiVersion(api_ver); a zero-length payload is not JSON
apiVersionParses(m) == m.body \notin {"empty", "unsupported"}

\* the code a suspended MQTTEventHandler call runs when it resumes
\* mutant: the drain loop puts the message it dispatches back into the queue
ShellStep_requeues(tk, L) ==
    CASE tk.pc = "gotVersion" ->
            IF tk.ver = NoVersion
            THEN IF isMQTTInitialRegistrationTopic(tk.msg)
                 THEN IF apiVersionParses(tk.msg)
                      THEN Entry([tk EXCEPT !.mode = "identity", !.ver = V2ApiVersion], L, tk.msg)
                      ELSE [tk |-> IdleTask, L |-> L, ev |-> <<>>, rej |-> TRUE]
                 ELSE Out(IdleTask, [L EXCEPT !.pend = cachePendingMessage(@, tk.msg)], <<>>)
            ELSE Entry(tk, L, tk.msg)
      [] tk.pc = "afterOp" ->
            LET r == getNextPendingMessage(L.pend) IN
            Out([tk EXCEPT !.pc = "drain", !.mode = "drain", !.next = r.msg,
                           !.timeout = IF tk.mode = "identity" THEN FALSE ELSE @],
                [L EXCEPT !.pend = r.rest], <<>>)
      [] tk.pc = "drain" ->
            IF tk.next = NullMsg \/ tk.timeout THEN Out(IdleTask, L, <<>>)
            ELSE Entry([tk EXCEPT !.next = NullMsg],
                       [L EXCEPT !.pend = cachePendingMessage(@, tk.next)], tk.next)

ShellStep(tk, L) ==
    CASE tk.pc = "gotVersion" ->
            \* onMessage after await getMQTTAPIVersion
            IF tk.ver = NoVersion
            THEN IF isMQTTInitialRegistrationTopic(tk.msg)
                 THEN IF apiVersionParses(tk.msg)
                      THEN Entry([tk EXCEPT !.mode = "identity", !.ver = V2ApiVersion], L, tk.msg)
                      ELSE [tk |-> IdleTask, L |-> L, ev |-> <<>>, rej |-> TRUE]
                 ELSE Out(IdleTask, [L EXCEPT !.pend = cachePendingMessage(@, tk.msg)], <<>>)
            ELSE Entry(tk, L, tk.msg)
      [] tk.pc = "afterOp" ->
            \* handlePendingMessages: setTimeout on entry, then getNextPendingMessage
            LET r == getNextPendingMessage(L.pend) IN
            Out([tk EXCEPT !.pc = "drain", !.mode = "drain", !.next = r.msg,
                           !.timeout = IF tk.mode = "identity" THEN FALSE ELSE @],
                [L EXCEPT !.pend = r.rest], <<>>)
      [] tk.pc = "drain" ->
            \* while (pendingMessage !== null) { if (timeout) return; handleVersionedMessage(..) }
            IF tk.next = NullMsg \/ tk.timeout THEN Out(IdleTask, L, <<>>)
            ELSE Entry([tk EXCEPT !.next = NullMsg], L, tk.next)

ShellPcs == {"gotVersion", "afterOp", "drain"}

\* ---------------------------------------------------------------- actions
\* ------------------------------------------------------- V2PacketParser
\* A property value is a list of records and a record is a list of elements
\* (V2UnpackedPropertyValue, V2BasePropertyValue).  An element is a JavaScript
\* number, a 64-bit Long, a string (n is its length), a boolean (n is 0 or 1)
\* or undefined.
Num(n) == [kind |-> "number", n |-> n]
LongOf(n) == [kind |-> "long", n |-> n]
Str(n) == [kind |-> "string", n |-> n]
Bool(n) == [kind |-> "boolean", n |-> n]
Undefined == [kind |-> "undefined", n |-> 0]
AnObject == [kind |-> "object", n |-> 0]

\* a call either returns v or throws
Ret(v) == [ok |-> TRUE, v |-> v]
Throws == [ok |-> FALSE, v |-> <<>>]

Min(a, b) == IF a < b THEN a ELSE b
SeqsUpTo(S, n) == UNION {[1..k -> S] : k \in 0..n}

\* the format info of the composite types: name, min, max of each field
GMBND_COLOR_FORMAT ==
    << [name |-> "white", min |-> 0, max |-> 255], [name |-> "red", min |-> 0, max |-> 255],
       [name |-> "green", min |-> 0, max |-> 255], [name |-> "blue", min |-> 0, max |-> 255] >>
GMBND_LED_FORMAT ==
    << [name |-> "index", min |-> 0, max |-> 65535],
       [name |-> "brightness", min |-> 0, max |-> 255] >> \o GMBND_COLOR_FORMAT
FieldNames == {GMBND_LED_FORMAT[i].name : i \in DOMAIN GMBND_LED_FORMAT}
formatOfType(type) == IF type = "gmbnd_color" THEN GMBND_COLOR_FORMAT ELSE GMBND_LED_FORMAT

\* PROPERTY_FORMAT_STRING_REGEX = /^[@=!<>]?(s)+$/ on a list of format codes
isStringFormat(format) == format # <<>> /\ \A i \in DOMAIN format : format[i] = "s"
\* format.includes('s')
includesS(format) == \E i \in DOMAIN format : format[i] = "s"

\* struct.sizeOf: every code of the model (B, b, ?, s) is one byte wide; a
\* count in front of s makes a string code that many bytes wide
sizeOf(format, count) == IF isStringFormat(format) THEN count + Len(format) - 1 ELSE Len(format)

\* struct.unpackFrom of one code at one byte: B is an unsigned byte, b a
\* two's complement byte, ? is true for any byte but 0
\* mutant: b is read as an unsigned byte
unpackCode_unsigned(code, byte) ==
    CASE code \in {"B", "b"} -> Num(byte)
      [] OTHER -> Bool(IF byte = 0 THEN 0 ELSE 1)
unpackCode(code, byte) ==
    CASE code = "B" -> Num(byte)
      [] code = "b" -> Num(IF byte > 127 THEN byte - 256 ELSE byte)
      [] OTHER -> Bool(IF byte = 0 THEN 0 ELSE 1)

\* struct.unpackFrom(formatString, payload, false, bufferIndex): one record
unpackFrom(format, count, payload, bufferIndex) ==
    IF isStringFormat(format) THEN [i \in 1..Len(format) |-> Str(IF i = 1 THEN count ELSE 1)]
    ELSE [i \in 1..Len(format) |-> unpackCode(format[i], payload[bufferIndex + i])]

\* struct.pack of one element under one code
packCode(code, e) ==
    CASE code = "?" -> e.n
      [] OTHER -> IF e.n < 0 THEN e.n + 256 ELSE e.n

\* Long.fromNumber(x): the fraction is dropped, towards zero.  x2 is twice x,
\* so that the bounds of a registration can be halves
LongFromNumber(x2) == IF x2 >= 0 THEN x2 \div 2 ELSE -((-x2) \div 2)
\* value.compare(bound) of a Long: the bound is first made a Long
LongCompare(n, x2) ==
    LET other == LongFromNumber(x2) IN
    IF n = other THEN 0 ELSE IF n < other THEN -1 ELSE 1

\* the checks of one element against min and max (twice the bounds in min2, max2)
elementInBoundaries(e, hasMin, min2, hasMax, max2) ==
    CASE e.kind = "number" ->
            /\ ~(hasMin /\ 2 * e.n < min2)
            /\ ~(hasMax /\ 2 * e.n > max2)
      [] e.kind = "long" ->
            /\ ~(hasMin /\ LongCompare(e.n, min2) = -1)
            /\ ~(hasMax /\ LongCompare(e.n, max2) = 1)
      [] OTHER -> TRUE

validateExtendedPropertyValueBoundaries(values, propertyFormatting) ==
    /\ Len(values) = Len(propertyFormatting)
    /\ \A i \in DOMAIN values :
          elementInBoundaries(values[i], TRUE, 2 * propertyFormatting[i].min,
                              TRUE, 2 * propertyFormatting[i].max)

\* validatePropertyValueBoundaries(values, propertyRegistration): TRUE when it
\* returns values, FALSE when it throws
validatePropertyValueBoundaries(values, reg) ==
    IF reg.type = "gmbnd_primitive"
    THEN \A i \in DOMAIN values :
            elementInBoundaries(values[i], reg.hasMin, reg.min2, reg.hasMax, reg.max2)
    ELSE validateExtendedPropertyValueBoundaries(values, formatOfType(reg.type))

\* the unpack loop of parsePropertyValue from item itemIndex on
RECURSIVE unpackIteratively(_, _, _, _, _, _)
unpackIteratively(format, count, payload, reg, itemIndex, unpacked) ==
    LET itemSize == sizeOf(format, count)
        bufferIndex == itemIndex * itemSize
    IN IF itemIndex < reg.length /\ bufferIndex + itemSize <= Len(payload)
       THEN LET unpackedItem == unpackFrom(format, count, payload, bufferIndex) IN
            IF validatePropertyValueBoundaries(unpackedItem, reg)
            THEN unpackIteratively(format, count, payload, reg, itemIndex + 1,
                                   Append(unpacked, unpackedItem))
            ELSE Throws
       ELSE Ret(unpacked)
\* mutant: the loop does not stop at registration.length
parsePropertyValue_noLength(payload, reg) ==
    unpackIteratively(reg.format, 1, payload, [reg EXCEPT !.length = Len(payload)], 0, <<>>)

\* parsePropertyValue(payload, propertyRegistration)
parsePropertyValue(payload, reg) ==
    IF reg.type = "gmbnd_primitive" /\ includesS(reg.format)
    THEN IF Len(payload) = 0 THEN Ret(<< <<Str(0)>> >>)
         ELSE unpackIteratively(reg.format, Min(reg.length, Len(payload)), payload, reg,
                                0, <<>>)
    ELSE unpackIteratively(reg.format, 1, payload, reg, 0, <<>>)

\* formatExtendedPropertyValue(value, propertyFormatting)
\* mutant: the number of values is not checked
formatExtendedPropertyValue_noCount(value, propertyFormatting) ==
    Ret([name \in {propertyFormatting[i].name : i \in DOMAIN propertyFormatting} |->
            LET i == CHOOSE j \in DOMAIN propertyFormatting : propertyFormatting[j].name = name
            IN IF i \in DOMAIN value THEN value[i] ELSE Undefined])
formatExtendedPropertyValue(value, propertyFormatting) ==
    IF Len(value) # Len(propertyFormatting) THEN Throws
    ELSE Ret([name \in {propertyFormatting[i].name : i \in DOMAIN value} |->
                 value[CHOOSE i \in DOMAIN value : propertyFormatting[i].name = name]])

RECURSIVE Flatten(_)
Flatten(value) == IF value = <<>> THEN <<>> ELSE Head(value) \o Flatten(Tail(value))

\* jsonFormatPropertyValue(value, propertyRegistration)
jsonFormatPropertyValue(value, reg) ==
    IF reg.type = "gmbnd_primitive" THEN Ret(Flatten(value))
    ELSE LET each == [k \in DOMAIN value |->
                         formatExtendedPropertyValue(value[k], formatOfType(reg.type))]
         IN IF \A k \in DOMAIN value : each[k].ok
            THEN Ret([k \in DOMAIN value |-> each[k].v])
            ELSE Throws

\* a top-level entry of a V2JsonPropertyValue: a scalar element, or an object
\* whose fields are numbers (NoField: the object has no such key)
NoField == -1
Scalar(e) == [object |-> FALSE, e |-> e, fields |-> [name \in FieldNames |-> NoField]]
Object(fields) == [object |-> TRUE, e |-> Undefined, fields |-> fields]

\* unpackJsonPropertyValue(value, propertyRegistration)
unpackJsonPropertyValue(value, reg) ==
    IF reg.type = "gmbnd_primitive"
    THEN IF isStringFormat(reg.format) /\ value # <<>> /\ ~value[1].object
                                       /\ value[1].e.kind = "string"
         THEN Ret(<< <<Str(Min(value[1].e.n, reg.length))>> >>)
         ELSE \* for (let i = 0; i < propertyRegistration.length && value.length; i++)
              IF value = <<>> THEN Ret(<<>>)
              ELSE Ret([i \in 1..reg.length |->
                          <<IF i \notin DOMAIN value THEN Undefined
                            ELSE IF value[i].object THEN AnObject ELSE value[i].e>>])
    ELSE LET customDataFormat == formatOfType(reg.type) IN
         IF \A k \in DOMAIN value : value[k].object
         THEN Ret([k \in DOMAIN value |->
                     [i \in DOMAIN customDataFormat |->
                         LET f == value[k].fields[customDataFormat[i].name]
                         IN IF f = NoField THEN Undefined ELSE Num(f)]])
         ELSE Throws

\* packPropertyValue(format, values); struct.pack takes one value per code
packPropertyValue(format, values) ==
    IF isStringFormat(format)
    THEN IF values = <<>> \/ values[1] = <<>> \/ values[1][1].kind # "string" THEN Throws
         ELSE Ret([i \in 1..values[1][1].n |-> 97])
    ELSE IF \E k \in DOMAIN values : Len(values[k]) # Len(format) THEN Throws
    ELSE Ret([b \in 1..(Len(values) * Len(format)) |->
                 LET k == ((b - 1) \div Len(format)) + 1
                     i == ((b - 1) % Len(format)) + 1
                 IN packCode(format[i], values[k][i])])

\* ------------------------------------------- the parser's bounded inputs
MaxPayload == 3
MaxRegLength == 2
MaxValues == 3
MaxRecords == 2

\* bytes of a payload: small ones, and one with the top bit set
PayloadBytes == {0, 1, 2, 255}
Payloads == SeqsUpTo(PayloadBytes, MaxPayload)
NumericFormats == { <<"B">>, <<"b">>, <<"?">>, <<"B", "b">> }
\* twice the min and max a registration may carry: 1 and 1.5
HalfBounds == {2, 3}

Registrations(types, formats) ==
    {r \in [type : types, format : formats, length : 0..MaxRegLength,
            hasMin : BOOLEAN, min2 : HalfBounds, hasMax : BOOLEAN, max2 : HalfBounds] :
        /\ ~r.hasMin => r.min2 = 2
        /\ ~r.hasMax => r.max2 = 2}
NoRegistration ==
    [type |-> "gmbnd_primitive", format |-> <<>>, length |-> 0,
     hasMin |-> FALSE, min2 |-> 2, hasMax |-> FALSE, max2 |-> 2]

\* the elements a format code can represent
Representable(code) ==
    CASE code = "B" -> {Num(0), Num(1), Num(255)}
      [] code = "b" -> {Num(-1), Num(0), Num(1)}
      [] OTHER -> {Bool(0), Bool(1)}
RecordsOf(format) ==
    {rec \in [1..Len(format) -> UNION {Representable(format[i]) : i \in DOMAIN format}] :
        \A i \in DOMAIN format : rec[i] \in Representable(format[i])}

\* one call of a V2PacketParser method
\*   op         parse, roundTrip (pack, then parse), validate, jsonFormat, unpackJson,
\*              jsonRoundTrip (jsonFormat, then unpackJson)
\*   reg        the propertyRegistration argument
\*   payload    the Buffer argument, or what packPropertyValue returned
\*   values     the values argument
\*   json       the V2JsonPropertyValue argument
\*   ok, result whether the call returned, and what
IdleParserCall ==
    [pc |-> "idle", op |-> "none", reg |-> NoRegistration, payload |-> <<>>,
     values |-> <<>>, json |-> <<>>, ok |-> TRUE, result |-> <<>>]

vars == <<registrationHash, pendingMessages, heldLocks, registrationTimeouts,
          tasks, emitted, rejected, delivered, timeouts, lockTimers, callers,
          base, batch, helperCalls, setCall, parserCall>>

\* MqttApiV2 calls lock(componentId) without timeoutMS: the timeouts map stays
\* empty and clearTimeout(undefined) in unlock does nothing
lockVars == <<timeouts, lockTimers, callers>>
historyVars == <<base, batch>>
utilVars == <<helperCalls, setCall, parserCall>>
dispatcherVars == <<registrationHash, pendingMessages, registrationTimeouts,
                    tasks, emitted, rejected, delivered, base, batch, helperCalls, setCall,
                    parserCall>>

Callers == 1..MaxCallers
NoTimer == 0
IdleCaller == [pc |-> "idle", s |-> "system", c |-> "c1", timeoutMS |-> FALSE]

\* one call of lockRegistrationCacheAndPerformAction(cache, locks, c, action)
\*   want      the locks argument
\*   pending   the locks whose lock(c) promise has not settled yet
\*   acquired  the acquiredLocks map of the call
\*   holds     the locks taken by the call's lock(c) and not given back by its unlock(c)
IdleHelperCall ==
    [pc |-> "idle", c |-> "c1", want |-> {}, pending |-> {}, acquired |-> {}, holds |-> {}]

\* one call of setPropertyValue(cache, c, source, propertyPath, values, publish)
\*   reg      what getProperty resolved with: {} is undefined
\*   ver      what getMQTTAPIVersion resolved with
\*   outcome  none, published, PropertyInvalidError or PropertyAccessError
IdleSetCall ==
    [pc |-> "idle", c |-> "c1", source |-> "app", path |-> "p1", reg |-> {},
     ver |-> NoVersion, outcome |-> "none"]

Init ==
    /\ registrationHash = [c \in AllComponents |-> UndefManifest]
    /\ pendingMessages = [c \in AllComponents |-> <<>>]
    /\ heldLocks = [s \in Sources |-> {}]
    /\ registrationTimeouts = [s \in Sources |-> {}]
    /\ tasks = [t \in Tasks |-> IdleTask]
    /\ emitted = <<>>
    /\ rejected = FALSE
    /\ delivered = 0
    /\ timeouts = [s \in Sources |-> [c \in Components |-> NoTimer]]
    /\ lockTimers = {}
    /\ callers = [k \in Callers |-> IdleCaller]
    /\ base = [c \in AllComponents |-> UndefManifest]
    /\ batch = <<>>
    /\ helperCalls = [k \in Callers |-> IdleHelperCall]
    /\ setCall = IdleSetCall
    /\ parserCall = IdleParserCall

\* the lowest free task slot
FreeSlot(t) == tasks[t].pc = "idle" /\ \A u \in Tasks : u < t => tasks[u].pc # "idle"

\* write the outcome r of a step of task t on component c back to the state
Apply(t, c, r) ==
    /\ registrationHash' = [registrationHash EXCEPT ![c] = r.L.h]
    /\ pendingMessages' = [pendingMessages EXCEPT ![c] = r.L.pend]
    /\ heldLocks' = r.L.held
    /\ registrationTimeouts' = r.L.timers
    /\ tasks' = [tasks EXCEPT ![t] = r.tk]
    /\ emitted' = r.ev
    /\ rejected' = r.rej

\* the transport calls MQTTEventHandler.onMessage(c, topic, payload):
\* the call reads the cached api version and suspends
DeliverUpTo(c, m, limit, numbered) ==
    /\ delivered < limit
    /\ \E t \in Tasks :
          /\ FreeSlot(t)
          /\ tasks' = [tasks EXCEPT ![t] =
                 [IdleTask EXCEPT !.pc = "gotVersion", !.c = c,
                                  !.msg = [m EXCEPT !.seq = IF numbered THEN delivered + 1 ELSE 0],
                                  !.ver = getMQTTAPIVersion(registrationHash[c])]]
    /\ delivered' = delivered + 1
    /\ emitted' = <<>>
    /\ rejected' = FALSE
    /\ UNCHANGED <<registrationHash, pendingMessages, heldLocks, registrationTimeouts>>
    /\ UNCHANGED lockVars
    /\ UNCHANGED historyVars
    /\ UNCHANGED utilVars

\* a suspended call resumes
TaskStep(t) ==
    /\ tasks[t].pc \notin {"idle", "lockWait"}
    /\ LET tk == tasks[t]
           r == IF tk.pc \in ShellPcs THEN ShellStep(tk, Slice(tk.c))
                ELSE DispatcherStep(tk, Slice(tk.c))
       IN Apply(t, tk.c, r)
    /\ UNCHANGED <<delivered, timeouts, lockTimers, callers>>
    /\ UNCHANGED historyVars
    /\ UNCHANGED utilVars

\* DefaultCacheLock.lock: the 100 ms poll finds the lock free
LockPoll(t, s) ==
    /\ tasks[t].pc = "lockWait"
    /\ s \in tasks[t].want \ tasks[t].got
    /\ lockIsFree(heldLocks, s, tasks[t].c)
    /\ LET tk == [tasks[t] EXCEPT !.got = @ \cup {s}]
           L == [Slice(tk.c) EXCEPT !.held = lock(@, s, tk.c)]
       IN Apply(t, tk.c, IF tk.got = tk.want THEN Locked(tk, L, <<>>) ELSE Out(tk, L, <<>>))
    /\ UNCHANGED <<delivered, timeouts, lockTimers, callers>>
    /\ UNCHANGED historyVars
    /\ UNCHANGED utilVars

\* the call a registration timer makes: handleRegistrationTimeout(c, source)
\* up to its first suspension
TimeoutEntry(c, s, L) ==
    tryLocks([IdleTask EXCEPT !.c = c, !.mode = "timer", !.op = "timeout",
                              !.msg = TimerMsg(s), !.want = {s}], L, <<>>)

\* a registration timer expires
TimerExpires(c, s) ==
    /\ c \in registrationTimeouts[s]
    /\ \E t \in Tasks :
          /\ FreeSlot(t)
          /\ Apply(t, c, TimeoutEntry(c, s, [Slice(c) EXCEPT
                                                !.timers = clearRegistrationTimeout(@, s, c)]))
    /\ UNCHANGED <<delivered, timeouts, lockTimers, callers>>

RegistrationTimerFires(c, s) == TimerExpires(c, s) /\ UNCHANGED historyVars /\ UNCHANGED utilVars

\* the 3 s timer of handlePendingMessages has expired: timeout = true.  The
\* flag is local to the loop and read only at the head of an iteration, so
\* the expiry is taken there
DrainTimeout(t) ==
    /\ tasks[t].pc = "drain"
    /\ tasks[t].next # NullMsg
    /\ ~tasks[t].timeout
    /\ tasks' = [tasks EXCEPT ![t].timeout = TRUE]
    /\ emitted' = <<>>
    /\ rejected' = FALSE
    /\ UNCHANGED <<registrationHash, pendingMessages, heldLocks, registrationTimeouts, delivered>>
    /\ UNCHANGED lockVars
    /\ UNCHANGED historyVars
    /\ UNCHANGED utilVars

Deliver(c, m) == DeliverUpTo(c, m, MaxMsgs, FALSE)
\* the same with the messages numbered in arrival order
DeliverEarly(c, m) == DeliverUpTo(c, m, MaxEarlyMsgs, TRUE)

\* the steps of the calls in flight and of the timers
Progress ==
    \/ \E t \in Tasks : TaskStep(t)
    \/ \E t \in Tasks, s \in Sources : LockPoll(t, s)
    \/ \E c \in Components, s \in Sources : RegistrationTimerFires(c, s)
    \/ \E t \in Tasks : DrainTimeout(t)

Next ==
    \/ \E c \in Components, m \in Messages : Deliver(c, m)
    \/ Progress

NextEarly ==
    \/ \E c \in Components, m \in EarlyMessages : DeliverEarly(c, m)
    \/ Progress

Spec == Init /\ [][Next]_vars

SpecEarly == Init /\ [][NextEarly]_vars

\* ------------------------------------------------------ two components
\* the traffic of the runs with two components
MultiMessages ==
    {SysInfoMsg(0), SysInfoMsg(1), WillMsg, AppInfoMsg(1), RegPropMsg("system", "p1", 0)}

NextMulti ==
    \/ \E c \in AllComponents, m \in MultiMessages : Deliver(c, m)
    \/ \E t \in Tasks : TaskStep(t)
    \/ \E t \in Tasks, s \in Sources : LockPoll(t, s)
    \/ \E c \in AllComponents, s \in Sources : RegistrationTimerFires(c, s)
    \/ \E t \in Tasks : DrainTimeout(t)

SpecMulti == Init /\ [][NextMulti]_vars

\* ------------------------------------ MqttApiV2 operations, two at a time
\* the source locks an operation takes
LocksOf(m) == IF isMQTTInitialRegistrationTopic(m) /\ m.body # "valid" THEN Sources
              ELSE {m.source}

\* the operations of a batch work on a common source
SharesSource(m) == \A i \in 1..Len(batch) : LocksOf(batch[i].msg) \cap LocksOf(m) # {}

\* MqttApiV2.onMessage(c, topic, payload) is called: the operation runs up to
\* its first suspension.  At most MaxBatch operations start between two
\* moments of rest.
StartOp(c, m) ==
    /\ Len(batch) < MaxBatch
    /\ SharesSource(m)
    /\ \E t \in Tasks :
          /\ FreeSlot(t)
          /\ Apply(t, c, Entry([IdleTask EXCEPT !.c = c], Slice(c), m))
    /\ batch' = Append(batch, [msg |-> m, concurrent |-> \E u \in Tasks : tasks[u].pc # "idle"])
    /\ UNCHANGED <<base, delivered, timeouts, lockTimers, callers>>
    /\ UNCHANGED utilVars

\* a registration timer expires and its handleRegistrationTimeout is one of
\* the operations of the batch
StartTimeoutOp(c, s) ==
    /\ Len(batch) < MaxBatch
    /\ SharesSource(TimerMsg(s))
    /\ TimerExpires(c, s)
    /\ batch' = Append(batch, [msg |-> TimerMsg(s),
                               concurrent |-> \E u \in Tasks : tasks[u].pc # "idle"])
    /\ UNCHANGED base
    /\ UNCHANGED utilVars

AtRest == \A t \in Tasks : tasks[t].pc = "idle"

\* every operation has returned: the next batch starts from the cache as it is
Settle ==
    /\ AtRest
    /\ batch # <<>>
    /\ base' = registrationHash
    /\ batch' = <<>>
    /\ emitted' = <<>>
    /\ UNCHANGED <<registrationHash, pendingMessages, heldLocks, registrationTimeouts,
                   tasks, rejected, delivered, timeouts, lockTimers, callers>>
    /\ UNCHANGED utilVars

NextV2 ==
    \/ \E c \in Components, m \in PairMessages : StartOp(c, m)
    \/ \E c \in Components, s \in Sources : StartTimeoutOp(c, s)
    \/ \E t \in Tasks : TaskStep(t)
    \/ \E t \in Tasks, s \in Sources : LockPoll(t, s)
    \/ Settle

SpecV2 == Init /\ [][NextV2]_vars

\* one operation run alone, from its call to its return: no lock is ever
\* held by another operation, so it never waits
RECURSIVE RunToEnd(_)
RunToEnd(r) == IF r.tk.pc = "idle" THEN r.L ELSE RunToEnd(DispatcherStep(r.tk, r.L))

RunAlone(L, c, m) ==
    RunToEnd(IF m.topic = "timer" THEN TimeoutEntry(c, m.source, L)
             ELSE Entry([IdleTask EXCEPT !.c = c], L, m))

\* the cache of component c after running m1 and then m2, one after the other
Serial(h, c, m1, m2) ==
    LET L0 == [h |-> h, pend |-> <<>>, held |-> [s \in Sources |-> {}],
               timers |-> [s \in Sources |-> {}]]
    IN RunAlone(RunAlone(L0, c, m1), c, m2).h

\* ------------------------------------------- DefaultCacheLock, called directly
\* lock(c, timeoutMS) past its while loop: heldLocks.add(c) and, with a
\* timeoutMS, timeouts.set(c, setTimeout(() => heldLocks.delete(c), timeoutMS)).
\* The timer handle of caller k is k.
lockAcquire(k, s, c, timeoutMS) ==
    /\ heldLocks' = lock(heldLocks, s, c)
    /\ timeouts' = IF timeoutMS THEN [timeouts EXCEPT ![s][c] = k] ELSE timeouts
    /\ lockTimers' = IF timeoutMS THEN lockTimers \cup {[s |-> s, c |-> c, id |-> k]}
                     ELSE lockTimers
    /\ callers' = [callers EXCEPT ![k] = [pc |-> "holding", s |-> s, c |-> c,
                                          timeoutMS |-> timeoutMS]]

\* a caller calls lock(c, timeoutMS?): it returns at once when the key is
\* free and polls otherwise.  A caller has at most one timer pending.
LockCall(k, s, c, timeoutMS) ==
    /\ callers[k].pc = "idle"
    /\ \A tm \in lockTimers : tm.id # k
    /\ IF lockIsFree(heldLocks, s, c)
       THEN lockAcquire(k, s, c, timeoutMS)
       ELSE /\ callers' = [callers EXCEPT ![k] = [pc |-> "waiting", s |-> s, c |-> c,
                                                  timeoutMS |-> timeoutMS]]
            /\ UNCHANGED <<heldLocks, timeouts, lockTimers>>
    /\ UNCHANGED dispatcherVars

\* the 100 ms poll of a waiting lock() finds the key free
LockWake(k) ==
    /\ callers[k].pc = "waiting"
    /\ lockIsFree(heldLocks, callers[k].s, callers[k].c)
    /\ lockAcquire(k, callers[k].s, callers[k].c, callers[k].timeoutMS)
    /\ UNCHANGED dispatcherVars

\* the holder calls unlock(c): clearTimeout(timeouts.get(c)); heldLocks.delete(c)
Unlock(k) ==
    /\ callers[k].pc = "holding"
    /\ LET s == callers[k].s
           c == callers[k].c
       IN /\ heldLocks' = unlock(heldLocks, s, c)
          /\ lockTimers' = {tm \in lockTimers : ~(tm.s = s /\ tm.c = c /\ tm.id = timeouts[s][c])}
    /\ callers' = [callers EXCEPT ![k] = IdleCaller]
    /\ UNCHANGED timeouts
    /\ UNCHANGED dispatcherVars

\* an auto-release timer expires: heldLocks.delete(c)
AutoRelease(tm) ==
    /\ tm \in lockTimers
    /\ heldLocks' = unlock(heldLocks, tm.s, tm.c)
    /\ lockTimers' = lockTimers \ {tm}
    /\ UNCHANGED <<timeouts, callers>>
    /\ UNCHANGED dispatcherVars

NextLock ==
    \/ \E k \in Callers, s \in Sources, c \in Components, tmo \in BOOLEAN : LockCall(k, s, c, tmo)
    \/ \E k \in Callers : LockWake(k)
    \/ \E k \in Callers : Unlock(k)
    \/ \E tm \in lockTimers : AutoRelease(tm)

SpecLock == Init /\ [][NextLock]_vars

\* ------------------- lockRegistrationCacheAndPerformAction, called directly
\* The helper is written against ICacheLockByComponentId, whose lock() either
\* delays its return until the lock is acquired or throws when the lock is
\* not available.
helperFrame ==
    <<registrationHash, pendingMessages, registrationTimeouts, tasks, emitted, rejected,
      delivered, timeouts, lockTimers, callers, base, batch, setCall, parserCall>>

HelperSettled == {"returned", "threw", "lockFailed"}

\* lockRegistrationCacheAndPerformAction(cache, want, c, action) is called:
\* lock(c) is called on every requested lock; the free ones are taken at once
HelperCall(k, c, want) ==
    /\ helperCalls[k].pc = "idle"
    /\ want # {}
    /\ LET free == {s \in want : lockIsFree(heldLocks, s, c)} IN
       /\ heldLocks' = [s \in Sources |-> IF s \in free THEN heldLocks[s] \cup {c}
                                           ELSE heldLocks[s]]
       /\ helperCalls' = [helperCalls EXCEPT ![k] =
              [pc |-> IF free = want THEN "action" ELSE "locking", c |-> c, want |-> want,
               pending |-> want \ free, acquired |-> free, holds |-> free]]
    /\ UNCHANGED helperFrame

\* a lock(c) that was waiting finds the lock free: it takes it and its
\* callback runs acquiredLocks.set(lock), whether or not the Promise.all it
\* belongs to has been rejected in the meantime
HelperLockWake(k, s) ==
    /\ s \in helperCalls[k].pending
    /\ lockIsFree(heldLocks, s, helperCalls[k].c)
    /\ heldLocks' = lock(heldLocks, s, helperCalls[k].c)
    /\ helperCalls' = [helperCalls EXCEPT ![k] =
           [@ EXCEPT !.pending = @ \ {s}, !.acquired = @ \cup {s}, !.holds = @ \cup {s},
                     !.pc = IF helperCalls[k].pc = "locking" /\ helperCalls[k].pending = {s}
                            THEN "action" ELSE @]]
    /\ UNCHANGED helperFrame

\* a lock(c) that found the lock not available throws.  The first rejection
\* rejects the Promise.all: the catch block runs releaseLocks() on what is in
\* acquiredLocks and raises the acquisition error
HelperLockFails(k, s) ==
    /\ s \in helperCalls[k].pending
    /\ ~lockIsFree(heldLocks, s, helperCalls[k].c)
    /\ IF helperCalls[k].pc = "locking"
       THEN /\ heldLocks' = releaseLocks([c |-> helperCalls[k].c, got |-> helperCalls[k].acquired],
                                         heldLocks)
            /\ helperCalls' = [helperCalls EXCEPT ![k] =
                   [@ EXCEPT !.pc = "lockFailed", !.pending = @ \ {s},
                             !.holds = @ \ helperCalls[k].acquired, !.acquired = {}]]
       ELSE /\ helperCalls' = [helperCalls EXCEPT ![k].pending = @ \ {s}]
            /\ UNCHANGED heldLocks
    /\ UNCHANGED helperFrame

\* the action returns or throws: releaseLocks(), then the result or the
\* action's error goes to the caller
HelperActionEnds(k, threw) ==
    /\ helperCalls[k].pc = "action"
    /\ heldLocks' = releaseLocks([c |-> helperCalls[k].c, got |-> helperCalls[k].acquired],
                                 heldLocks)
    /\ helperCalls' = [helperCalls EXCEPT ![k] =
           [@ EXCEPT !.pc = IF threw THEN "threw" ELSE "returned",
                     !.holds = @ \ helperCalls[k].acquired, !.acquired = {}]]
    /\ UNCHANGED helperFrame

\* the caller is done with a settled call that has nothing left in flight
HelperForget(k) ==
    /\ helperCalls[k].pc \in HelperSettled
    /\ helperCalls[k].pending = {} /\ helperCalls[k].holds = {}
    /\ helperCalls' = [helperCalls EXCEPT ![k] = IdleHelperCall]
    /\ UNCHANGED heldLocks
    /\ UNCHANGED helperFrame

NextHelper ==
    \/ \E k \in Callers, c \in Components, want \in SUBSET Sources : HelperCall(k, c, want)
    \/ \E k \in Callers, s \in Sources : HelperLockWake(k, s)
    \/ \E k \in Callers, s \in Sources : HelperLockFails(k, s)
    \/ \E k \in Callers, threw \in BOOLEAN : HelperActionEnds(k, threw)
    \/ \E k \in Callers : HelperForget(k)

SpecHelper == Init /\ [][NextHelper]_vars

\* ------------------------------------------------------ setPropertyValue
\* V2PacketParser.setPropertyValue: pack the values and hand them to the
\* publish function; values that do not fit the registration are refused
packAndPublish(fits) == IF fits THEN "published" ELSE "PropertyFormatError"

\* setPropertyValue after both reads: the two checks, then the parser
setPropertyValueOutcome(reg, ver, fits) ==
    IF reg = {} \/ ver = NoVersion THEN "PropertyInvalidError"
    ELSE IF \E r \in reg : r.settable # TRUE THEN "PropertyAccessError"
    ELSE packAndPublish(fits)

setCallFrame ==
    <<registrationHash, pendingMessages, heldLocks, registrationTimeouts, tasks, emitted,
      rejected, delivered, timeouts, lockTimers, callers, base, batch, helperCalls,
      parserCall>>

\* setPropertyValue(cache, c, source, path, values, publish) is called:
\* cache.getProperty runs up to its return, or throws
SetPropertyValueCall(c, s, p) ==
    /\ setCall.pc = "idle"
    /\ LET r == getProperty(registrationHash[c], s, p)
           call == [IdleSetCall EXCEPT !.c = c, !.source = s, !.path = p]
       IN setCall' = IF r.ok THEN [call EXCEPT !.pc = "sp1", !.reg = r.v]
                     ELSE [call EXCEPT !.pc = "done", !.outcome = "TypeError"]
    /\ UNCHANGED setCallFrame

\* the call resumes with the registration: cache.getMQTTAPIVersion
SetPropertyValueReadsVersion ==
    /\ setCall.pc = "sp1"
    /\ setCall' = [setCall EXCEPT !.pc = "sp2",
                                  !.ver = getMQTTAPIVersion(registrationHash[setCall.c])]
    /\ UNCHANGED setCallFrame

\* the call resumes with the version: the checks and the publication
SetPropertyValueChecks(fits) ==
    /\ setCall.pc = "sp2"
    /\ setCall' = [setCall EXCEPT !.pc = "done",
                                  !.outcome = setPropertyValueOutcome(setCall.reg, setCall.ver, fits)]
    /\ UNCHANGED setCallFrame

\* the caller has seen the outcome
SetPropertyValueSettles ==
    /\ setCall.pc = "done"
    /\ setCall' = IdleSetCall
    /\ UNCHANGED setCallFrame

NextProps ==
    \/ \E c \in Components, m \in PropMessages : StartOp(c, m)
    \/ \E t \in Tasks : TaskStep(t)
    \/ \E t \in Tasks, s \in Sources : LockPoll(t, s)
    \/ Settle
    \/ \E c \in Components, s \in Sources, p \in Paths : SetPropertyValueCall(c, s, p)
    \/ SetPropertyValueReadsVersion
    \/ \E fits \in BOOLEAN : SetPropertyValueChecks(fits)
    \/ SetPropertyValueSettles

SpecProps == Init /\ [][NextProps]_vars

\* --------------------------------------------- calls of the packet parser
\* the elements validatePropertyValueBoundaries is called with
ValidateElements == {Num(n) : n \in 0..2} \cup {LongOf(n) : n \in 0..2} \cup {Str(3), Bool(1)}
\* decoded records of 3 to 7 elements, each element telling its position
PositionRecords == {[i \in 1..n |-> Num(first + i)] : n \in 3..7, first \in {0, 10}}
\* JSON entries: a number, a string, a colour object, an led object
JsonEntries ==
    {Scalar(Num(1)), Scalar(Str(3)),
     Object([name \in FieldNames |->
                IF \E i \in DOMAIN GMBND_COLOR_FORMAT : GMBND_COLOR_FORMAT[i].name = name
                THEN 7 ELSE NoField]),
     Object([name \in FieldNames |-> 5])}
Unbounded(type, format, length) ==
    [NoRegistration EXCEPT !.type = type, !.format = format, !.length = length]

NewCall(op, reg) == [IdleParserCall EXCEPT !.pc = "called", !.op = op, !.reg = reg]

\* the composite and primitive registrations unpackJsonPropertyValue is called with
JsonRegistrations ==
    {Unbounded(tf[1], tf[2], n) :
        tf \in {<<"gmbnd_primitive", <<"B">> >>, <<"gmbnd_primitive", <<"s">> >>,
                <<"gmbnd_color", <<"B", "B", "B", "B">> >>,
                <<"gmbnd_led", <<"B", "B", "B", "B", "B", "B">> >>},
        n \in 0..MaxRegLength}

\* the records a decoded value of registration r is made of
DecodedRecords(r) ==
    IF r.type # "gmbnd_primitive"
    THEN {rec \in PositionRecords : Len(rec) \in {Len(formatOfType(r.type)), 3}}
    ELSE IF isStringFormat(r.format) THEN {<<Str(n)>> : n \in 1..r.length}
    ELSE RecordsOf(r.format)

\* the value jsonFormatPropertyValue returned, as the V2JsonPropertyValue
\* argument of unpackJsonPropertyValue: the same JavaScript value
asJsonArgument(formatted, reg) ==
    [k \in DOMAIN formatted |->
        IF reg.type = "gmbnd_primitive" THEN Scalar(formatted[k])
        ELSE Object([name \in FieldNames |->
                        IF name \in DOMAIN formatted[k] THEN formatted[k][name].n
                        ELSE NoField])]

parserFrame ==
    <<registrationHash, pendingMessages, heldLocks, registrationTimeouts, tasks, emitted,
      rejected, delivered, timeouts, lockTimers, callers, base, batch, helperCalls, setCall>>

\* the state before a parser method is called with one of the bounded inputs
InitParser ==
    /\ registrationHash = [c \in AllComponents |-> UndefManifest]
    /\ pendingMessages = [c \in AllComponents |-> <<>>]
    /\ heldLocks = [s \in Sources |-> {}]
    /\ registrationTimeouts = [s \in Sources |-> {}]
    /\ tasks = [t \in Tasks |-> IdleTask]
    /\ emitted = <<>>
    /\ rejected = FALSE
    /\ delivered = 0
    /\ timeouts = [s \in Sources |-> [c \in Components |-> NoTimer]]
    /\ lockTimers = {}
    /\ callers = [k \in Callers |-> IdleCaller]
    /\ base = [c \in AllComponents |-> UndefManifest]
    /\ batch = <<>>
    /\ helperCalls = [k \in Callers |-> IdleHelperCall]
    /\ setCall = IdleSetCall
    /\ \/ \E r \in Registrations({"gmbnd_primitive"}, NumericFormats), p \in Payloads :
             parserCall = [NewCall("parse", r) EXCEPT !.payload = p]
       \/ \E r \in Registrations({"gmbnd_primitive"}, NumericFormats) :
             \E v \in SeqsUpTo(RecordsOf(r.format), MaxValues) :
                parserCall = [NewCall("roundTrip", r) EXCEPT !.values = v]
       \/ \E r \in Registrations({"gmbnd_primitive"}, {<<"B">>}),
             rec \in SeqsUpTo(ValidateElements, MaxRecords) :
             parserCall = [NewCall("validate", r) EXCEPT !.values = <<rec>>]
       \/ \E t \in {"gmbnd_primitive", "gmbnd_color", "gmbnd_led"},
             v \in SeqsUpTo(PositionRecords, MaxRecords) :
             parserCall = [NewCall("jsonFormat", Unbounded(t, <<"B">>, 1)) EXCEPT !.values = v]
       \/ \E r \in JsonRegistrations, j \in SeqsUpTo(JsonEntries, MaxValues) :
             parserCall = [NewCall("unpackJson", r) EXCEPT !.json = j]
       \/ \E r \in JsonRegistrations \cup {Unbounded("gmbnd_primitive", <<"B", "b">>, 1)} :
             \E v \in SeqsUpTo(DecodedRecords(r), MaxRecords) :
                \* a decoded string is one record
                /\ isStringFormat(r.format) => Len(v) <= 1
                /\ parserCall = [NewCall("jsonRoundTrip", r) EXCEPT !.values = v]

Settles(r) == [parserCall EXCEPT !.pc = "done", !.ok = r.ok, !.result = r.v]

\* packPropertyValue(registration.format, values) returns the Buffer or throws
ParserPacks ==
    /\ parserCall.pc = "called" /\ parserCall.op = "roundTrip"
    /\ LET r == packPropertyValue(parserCall.reg.format, parserCall.values) IN
       parserCall' = IF r.ok THEN [parserCall EXCEPT !.pc = "packed", !.payload = r.v]
                     ELSE Settles(r)
    /\ UNCHANGED parserFrame

\* parsePropertyValue(payload, registration), on the given Buffer or on the
\* one that was just packed
ParserParses ==
    /\ \/ parserCall.pc = "called" /\ parserCall.op = "parse"
       \/ parserCall.pc = "packed"
    /\ parserCall' = Settles(parsePropertyValue(parserCall.payload, parserCall.reg))
    /\ UNCHANGED parserFrame

\* validatePropertyValueBoundaries(values, registration)
ParserValidates ==
    /\ parserCall.pc = "called" /\ parserCall.op = "validate"
    /\ parserCall' =
          Settles(IF validatePropertyValueBoundaries(parserCall.values[1], parserCall.reg)
                  THEN Ret(parserCall.values[1]) ELSE Throws)
    /\ UNCHANGED parserFrame

\* jsonFormatPropertyValue(values, registration)
ParserFormats ==
    /\ parserCall.pc = "called" /\ parserCall.op \in {"jsonFormat", "jsonRoundTrip"}
    /\ LET r == jsonFormatPropertyValue(parserCall.values, parserCall.reg) IN
       parserCall' = IF r.ok /\ parserCall.op = "jsonRoundTrip"
                     THEN [parserCall EXCEPT !.pc = "formatted",
                                             !.json = asJsonArgument(r.v, parserCall.reg)]
                     ELSE Settles(r)
    /\ UNCHANGED parserFrame

\* unpackJsonPropertyValue(json, registration), on the given JSON value or on
\* the one that was just formatted
ParserUnpacksJson ==
    /\ \/ parserCall.pc = "called" /\ parserCall.op = "unpackJson"
       \/ parserCall.pc = "formatted"
    /\ parserCall' = Settles(unpackJsonPropertyValue(parserCall.json, parserCall.reg))
    /\ UNCHANGED parserFrame

NextParser ==
    \/ ParserPacks
    \/ ParserParses
    \/ ParserValidates
    \/ ParserFormats
    \/ ParserUnpacksJson

SpecParser == InitParser /\ [][NextParser]_vars

\* the callers whose lock(c) on the key of source s has returned and who have
\* not called unlock(c) since
Holders(s, c) == {k \in Callers : callers[k].pc = "holding" /\ callers[k].s = s /\ callers[k].c = c}

\* C1: DefaultCacheLock grants at most one holder per (source, componentId):
\* once a caller's lock(componentId, timeoutMS?) has returned, no other
\* caller's lock on that key returns until the first caller has called unlock.
C1_AtMostOneHolder ==
    \A s \in Sources, c \in Components : Cardinality(Holders(s, c)) <= 1

\* C1 as amended: the same, for a key on which no lock call has passed a
\* timeoutMS (the timeouts map has no entry for it); the holder's key is then
\* in heldLocks.
C1_AtMostOneHolderWithoutTimeout ==
    \A s \in Sources, c \in Components :
        timeouts[s][c] = NoTimer =>
            /\ Cardinality(Holders(s, c)) <= 1
            /\ (Holders(s, c) # {} => c \in heldLocks[s])

\* one caller holds the key, another one polls for it, no timeout was passed
C1_Witness ==
    \E k1, k2 \in Callers, s \in Sources, c \in Components :
        /\ timeouts[s][c] = NoTimer
        /\ k1 \in Holders(s, c)
        /\ callers[k2].pc = "waiting" /\ callers[k2].s = s /\ callers[k2].c = c

\* ------------------------------------------------------ registration claims
\* what the cache holds for one source of a component; a deleted or never
\* created sub-record holds nothing
Content(h, s) ==
    [info |-> h[s].info, properties |-> h[s].properties, isRegistered |-> h[s].isRegistered]
NoContent == [info |-> NoInfo, properties |-> {}, isRegistered |-> FALSE]

\* C2: in every reachable state, for every component and source, a true
\* isRegistered flag implies that the number of cached property registrations
\* equals num_props of the cached info of that source.
C2_RegisteredImpliesCount ==
    \A c \in Components, s \in Sources :
        registrationHash[c][s].isRegistered =>
            Cardinality(registrationHash[c][s].properties) = registrationHash[c][s].info

\* C3: the property registrations cached for a (componentId, source) have
\* pairwise distinct paths and pairwise distinct indexes.
C3_DistinctPathsAndIndexes ==
    \A c \in Components, s \in Sources :
        \A r1, r2 \in registrationHash[c][s].properties :
            r1 # r2 => (r1.path # r2.path /\ r1.index # r2.index)

\* two property registrations are cached for one source
C3_Witness ==
    \E c \in Components, s \in Sources :
        Cardinality(registrationHash[c][s].properties) = 2

\* task t holds the lock of source s for component c before or after the step
HoldsInStep(t, c, s) ==
    \/ (tasks[t].c = c /\ s \in tasks[t].got /\ c \in heldLocks[s])
    \/ (tasks'[t].c = c /\ s \in tasks'[t].got /\ c \in heldLocks'[s])

\* C5: every write to a source's sub-record (info, properties, isRegistered)
\* is made by an operation that holds that source's lock for the component,
\* and clearAllCacheForComponentId runs only while both locks are held.
C5_WritesUnderLock ==
    [][\A c \in Components :
          /\ \A s \in Sources :
                Content(registrationHash'[c], s) # Content(registrationHash[c], s) =>
                    \E t \in Tasks : tasks'[t] # tasks[t] /\ HoldsInStep(t, c, s)
          /\ (registrationHash[c].defined /\ ~registrationHash'[c].defined) =>
                \E t \in Tasks : /\ tasks'[t] # tasks[t]
                                 /\ \A s \in Sources : HoldsInStep(t, c, s)]_vars

\* a will has cleared a component that had cached content, holding both locks
C5_Witness ==
    \E t \in Tasks :
        /\ tasks[t].op = "will" /\ tasks[t].pc = "cleared" /\ tasks[t].got = Sources
        /\ ~registrationHash[tasks[t].c].defined
        /\ \E u \in Tasks : u # t /\ tasks[u].pc = "lockWait" /\ tasks[u].c = tasks[t].c

\* ------------------------------------------- claims on messages before identity
\* the non-identity RECEIVED_MSG events of component c in a list of events
NonIdentityReceived(evs, c) ==
    {i \in 1..Len(evs) : evs[i].type = "RECEIVED_MSG" /\ evs[i].c = c /\ ~IsIdentityReceivedEv(evs[i])}

\* C6: while a component's cached api version is absent, no non-identity
\* message reaches MqttApiV2 (no RECEIVED_MSG is emitted for one) and no info,
\* property or isRegistered entry is written for that component.
C6_NothingDispatchedWithoutVersion ==
    [][\A c \in Components :
          /\ registrationHash[c].apiVersion = NoVersion => NonIdentityReceived(emitted', c) = {}
          /\ registrationHash'[c].apiVersion = NoVersion =>
                \A s \in Sources : Content(registrationHash'[c], s) = NoContent]_vars

\* a zero-length system/info payload
isWill(m) == isMQTTInitialRegistrationTopic(m) /\ m.body = "empty"

\* C7: a zero-length system/info payload, arriving in any state, makes the
\* handler emit ONLINE{c, online: false} when onMessage goes on after reading
\* the cached version, and the clear-all it runs leaves the component with no
\* cached api version, info, properties or registration flags.
C7_WillEmitsOfflineAndClears ==
    [][\A t \in Tasks :
          /\ (tasks[t].pc = "gotVersion" /\ isWill(tasks[t].msg) /\ tasks'[t] # tasks[t]) =>
                \E i \in 1..Len(emitted') : emitted'[i] = OnlineEv(tasks[t].c, FALSE)
          /\ (tasks[t].op = "will" /\ tasks'[t].pc = "cleared" /\ tasks'[t] # tasks[t]) =>
                registrationHash'[tasks[t].c] = UndefManifest]_vars

\* handlePendingMessages of task t hands its pending message to MqttApiV2 in this step
StartsDispatch(t) ==
    /\ tasks[t].pc = "drain" /\ tasks[t].next # NullMsg
    /\ tasks'[t] # tasks[t]
    /\ emitted' # <<>>

\* buffered message m is still waiting in the queue, is held by a drain loop
\* that has not dispatched it yet, or is being handled by MqttApiV2 for a
\* drain loop other than t
DispatchUnfinished(t, c, m) ==
    \/ \E i \in 1..Len(pendingMessages[c]) : pendingMessages[c][i] = m
    \/ \E u \in Tasks : /\ u # t /\ tasks[u].c = c /\ tasks[u].mode = "drain"
                        /\ \/ tasks[u].next = m
                           \/ (tasks[u].msg = m /\ tasks[u].pc \notin ShellPcs)

\* the messages of component c that are buffered or were taken from the buffer
Buffered(c) ==
    {pendingMessages[c][i] : i \in 1..Len(pendingMessages[c])}
    \cup {tasks[u].next : u \in {v \in Tasks : tasks[v].c = c /\ tasks[v].next # NullMsg}}
    \cup {tasks[u].msg : u \in {v \in Tasks : tasks[v].c = c /\ tasks[v].mode = "drain"
                                              /\ tasks[v].pc \notin ShellPcs}}

\* C8: buffered messages are dispatched to MqttApiV2 in their arrival order:
\* the dispatch of a buffered message starts only after the dispatch of every
\* buffered message that arrived before it has finished.
C8_DrainInArrivalOrder ==
    [][\A t \in Tasks :
          StartsDispatch(t) =>
              \A m1 \in Buffered(tasks[t].c) :
                  m1.seq < tasks[t].next.seq => ~DispatchUnfinished(t, tasks[t].c, m1)]_vars

\* C9: no message is removed from the pending queue without being
\* dispatched: a handlePendingMessages loop that lets go of the message it
\* took from the queue hands it to MqttApiV2 (RECEIVED_MSG is emitted for it).
C9_DequeuedIsDispatched ==
    [][\A t \in Tasks :
          (tasks[t].pc = "drain" /\ tasks[t].next # NullMsg /\ tasks'[t].next = NullMsg) =>
              (emitted' # <<>> /\ emitted'[1] = ReceivedEv(tasks[t].c, tasks[t].next))]_vars

\* an onMessage call that handles an identity message of c, and so runs or is
\* about to run handlePendingMessages, is in flight
IdentityInFlight(c) ==
    \E t \in Tasks : tasks[t].c = c /\ tasks[t].mode \in {"identity", "drain"}

\* C10: whenever a component's api version is cached and no
\* handlePendingMessages loop is running or about to run for it, its pending
\* queue is empty.
C10_DrainedOnceVersionCached ==
    \A c \in Components :
        (registrationHash[c].apiVersion # NoVersion /\ ~IdentityInFlight(c)) =>
            pendingMessages[c] = <<>>

\* ------------------------------------------------- serial equivalence
\* C4: two dispatcher operations (handleSystemInfo, handleAppInfo,
\* handlePropertyRegistration, handleRegistrationTimeout) on the same
\* (componentId, source), however their suspension points interleave, leave
\* the cache as running them one after the other in one of the two orders does.
C4_SerialEquivalent ==
    \A c \in Components :
        (AtRest /\ Len(batch) = 2 /\ LocksOf(batch[1].msg) \cap LocksOf(batch[2].msg) # {}) =>
            \/ registrationHash[c] = Serial(base[c], c, batch[1].msg, batch[2].msg)
            \/ registrationHash[c] = Serial(base[c], c, batch[2].msg, batch[1].msg)

\* two operations on one source that overlapped in time have both returned,
\* and the two serial orders give different caches
C4_Witness ==
    \E c \in Components :
        /\ AtRest /\ Len(batch) = 2 /\ batch[2].concurrent
        /\ LocksOf(batch[1].msg) \cap LocksOf(batch[2].msg) # {}
        /\ Serial(base[c], c, batch[1].msg, batch[2].msg)
               # Serial(base[c], c, batch[2].msg, batch[1].msg)

\* ------------------------------------------------- conflicting records
\* task t runs handlePropertyRegistration for a record that conflicts with a
\* record cached for its source, the source being registered, and is about
\* to go on after isRegistered resolved
ConflictsWithRegistered(t) ==
    /\ tasks[t].op = "regprop" /\ tasks[t].pc = "rp1" /\ tasks[t].wasReg
    /\ propertyConflicts(registrationHash[tasks[t].c][tasks[t].msg.source].properties,
                         tasks[t].msg.path, tasks[t].msg.index)

\* C11: a register/prop record that conflicts with a cached record of an
\* already-registered source is skipped: the handler leaves the cached
\* properties and the isRegistered flag of that source unchanged and emits no
\* REGISTERED event.
C11_ConflictingRecordSkipped ==
    [][\A t \in Tasks :
          (ConflictsWithRegistered(t) /\ tasks'[t] # tasks[t]) =>
              /\ Content(registrationHash'[tasks[t].c], tasks[t].msg.source)
                     = Content(registrationHash[tasks[t].c], tasks[t].msg.source)
              /\ \A i \in 1..Len(emitted') : emitted'[i].type # "REGISTERED"]_vars

\* ------------------------------------------------- errors raised to the caller
\* C15: MQTTEventHandler.onMessage never raises to its caller: whatever the
\* message and the cache state, no step rejects the promise of an onMessage call.
C15_OnMessageNeverRejects == rejected = FALSE

\* ------------------------------------------------- the first identity
\* call t is an onMessage that found no cached api version and carries a
\* valid system/info with num_props 0
FreshIdentityZero(t) ==
    /\ tasks[t].msg = [SysInfoMsg(0) EXCEPT !.seq = tasks[t].msg.seq]
    /\ \/ (tasks[t].pc = "gotVersion" /\ tasks[t].ver = NoVersion)
       \/ (tasks[t].mode = "identity" /\ tasks[t].op = "sysinfo")

\* C16: for a component with no cached api version, a valid system/info with
\* api_ver 2 and num_props 0 produces exactly RECEIVED_MSG, ONLINE{online: true}
\* and REGISTERED{system, registered: true}, in that order, and leaves api
\* version 2 cached and system isRegistered true.  Step by step: the call emits
\* the first two events when it enters MqttApiV2, nothing while it waits for
\* the lock and caches the version, the info and the flag, and the third event
\* in its last step, after which the version and the flag are cached.
C16_FreshIdentityEvents ==
    [][\A t \in Tasks :
          (FreshIdentityZero(t) /\ tasks'[t] # tasks[t]) =>
              LET c == tasks[t].c IN
              CASE tasks[t].pc = "gotVersion" ->
                      /\ emitted' = <<ReceivedEv(c, tasks[t].msg), OnlineEv(c, TRUE)>>
                      /\ tasks'[t].pc \in {"lockWait", "si2"}
                [] tasks[t].pc = "lockWait" ->
                      emitted' = <<>> /\ tasks'[t].pc = "si2"
                [] tasks[t].pc = "si2" ->
                      emitted' = <<>> /\ tasks'[t].pc = "si3"
                [] tasks[t].pc = "si3" ->
                      emitted' = <<>> /\ tasks'[t].pc = "si4"
                [] tasks[t].pc = "si4" ->
                      /\ emitted' = <<RegisteredEv(c, "system", TRUE)>>
                      /\ tasks'[t].pc = "afterOp"
                      /\ registrationHash'[c].apiVersion = V2ApiVersion
                      /\ registrationHash'[c].system.isRegistered
                [] OTHER -> FALSE]_vars

\* the first identity of a component has just been handled to its end while
\* another call was waiting for the system lock
C16_Witness ==
    \E t \in Tasks :
        /\ tasks[t].mode = "identity" /\ tasks[t].pc = "afterOp"
        /\ emitted = <<RegisteredEv(tasks[t].c, "system", TRUE)>>
        /\ registrationHash[tasks[t].c].apiVersion = V2ApiVersion
        /\ registrationHash[tasks[t].c].system.isRegistered
        /\ \E u \in Tasks : u # t /\ tasks[u].pc = "lockWait"

\* ------------------------------------------------- the completing record
\* task t holds the lock of its source
HoldsOwnLock(tk, held) == tk.msg.source \in tk.got /\ tk.c \in held[tk.msg.source]

\* handlePropertyRegistration of task t has cached its record, the record is
\* a new one (the cached properties differ from those read before the
\* write), and the source now has as many properties as its info announces
CompletingRecord(t) ==
    LET sub == registrationHash[tasks[t].c][tasks[t].msg.source] IN
    /\ tasks[t].op = "regprop" /\ tasks[t].pc \in {"rp4", "rp5"}
    /\ sub.properties # tasks[t].regProps
    /\ Cardinality(sub.properties) = sub.info

\* C17: when an accepted register/prop record brings the number of cached
\* properties of a source to the num_props of its cached info, the same
\* lock-holding handlePropertyRegistration goes on, without waiting for the
\* timer, to cancel the completion-check timer, set isRegistered true and
\* emit REGISTERED{registered: true}.
C17_CompletesOnLastRecord ==
    [][\A t \in Tasks :
          LET c == tasks[t].c
              s == tasks[t].msg.source
          IN
          /\ (CompletingRecord(t) /\ tasks[t].pc = "rp4" /\ tasks'[t] # tasks[t]) =>
                 /\ tasks'[t].pc = "rp5" /\ HoldsOwnLock(tasks'[t], heldLocks')
                 /\ CompletingRecord(t)'
          /\ (CompletingRecord(t) /\ tasks[t].pc = "rp5" /\ tasks'[t] # tasks[t]) =>
                 /\ tasks'[t].pc = "rp6" /\ HoldsOwnLock(tasks'[t], heldLocks')
                 /\ c \notin registrationTimeouts'[s]
                 /\ registrationHash'[c][s].isRegistered
          /\ (tasks[t].pc = "rp6" /\ tasks'[t] # tasks[t]) =>
                 /\ HoldsOwnLock(tasks[t], heldLocks)
                 /\ emitted' = <<RegisteredEv(c, s, TRUE)>>]_vars

\* the record that completed a registration has been handled up to the
\* REGISTERED event: the flag is set and no timer is pending, under the lock
C17_Witness ==
    \E t \in Tasks :
        LET sub == registrationHash[tasks[t].c][tasks[t].msg.source] IN
        /\ tasks[t].pc = "rp6" /\ HoldsOwnLock(tasks[t], heldLocks)
        /\ sub.isRegistered /\ sub.info >= 1 /\ Cardinality(sub.properties) = sub.info
        /\ tasks[t].c \notin registrationTimeouts[tasks[t].msg.source]

C19_ClearCachedValuesLeavesUnregistered ==
    [][\A t \in Tasks :
          (/\ tasks[t].op = "appinfo" /\ tasks[t].pc = "ai1" /\ tasks[t].wasReg
           /\ tasks'[t] # tasks[t]) =>
              LET c == tasks[t].c IN
              /\ Content(registrationHash'[c], "app") = NoContent
              /\ isRegistered(registrationHash'[c], "app") = [ok |-> TRUE, v |-> FALSE]
              /\ registrationHash'[c].system = registrationHash[c].system]_vars

\* ------------------------------------------------- property values
\* the operations i of the batch is a value publication
IsPub(i) == Len(batch) >= i /\ batch[i].msg.topic = "prop/pub"

\* C13: for a given component, PROP_UPDATE events are emitted in the order
\* in which their prop/pub messages entered MqttApiV2.onMessage: of two
\* publications that both produce a PROP_UPDATE, the one that entered second
\* does not emit its event while the first has not emitted its own.
C13_PropUpdatesInEntryOrder ==
    [][(IsPub(1) /\ IsPub(2) /\ batch[1].msg # batch[2].msg) =>
          \A t \in Tasks :
              (/\ tasks[t].pc = "pv1" /\ tasks[t].msg = batch[2].msg
               /\ tasks'[t] # tasks[t]) =>
                  ~\E u \in Tasks : /\ tasks[u].c = tasks[t].c
                                     /\ tasks[u].pc = "pv1" /\ tasks[u].msg = batch[1].msg]_vars

\* C14: setPropertyValue invokes the publish function only if a registration
\* for (componentId, source, path) is cached, the component's api version is
\* cached and the registration's settable flag is true; a missing
\* registration or api version raises PropertyInvalidError and a settable
\* flag that is not true raises PropertyAccessError.
C14_SetPropertyValueOutcome ==
    setCall.pc = "done" =>
        /\ setCall.outcome = "published" =>
               /\ setCall.reg # {} /\ setCall.ver # NoVersion
               /\ \A r \in setCall.reg : r.settable
        /\ (setCall.reg = {} \/ setCall.ver = NoVersion) =>
               setCall.outcome = "PropertyInvalidError"
        /\ (setCall.reg # {} /\ setCall.ver # NoVersion /\ \E r \in setCall.reg : ~r.settable) =>
               setCall.outcome = "PropertyAccessError"

\* ------------------------------------------------- the multi-lock helper
\* C12: lockRegistrationCacheAndPerformAction releases every lock it
\* acquired on every exit path: once its promise has settled, after the
\* action returned, after the action threw or after acquiring one of the
\* requested locks failed, none of the requested locks is still held on
\* behalf of that call.
C12_ReleasesOnEveryExit ==
    \A k \in Callers :
        helperCalls[k].pc \in HelperSettled => helperCalls[k].holds = {}

\* ------------------------------------------------- independent components
\* the components whose cached state, held locks or registration timers
\* differ before and after the step
ChangedComponents ==
    {d \in AllComponents :
        \/ registrationHash'[d] # registrationHash[d]
        \/ \E s \in Sources : (d \in heldLocks'[s]) # (d \in heldLocks[s])
        \/ \E s \in Sources : (d \in registrationTimeouts'[s]) # (d \in registrationTimeouts[s])}

\* the component of the call that task slot t holds before or after the step
ComponentsOf(t) ==
    (IF tasks[t].pc # "idle" THEN {tasks[t].c} ELSE {})
    \cup (IF tasks'[t].pc # "idle" THEN {tasks'[t].c} ELSE {})

\* C20: components progress independently: an operation for component c
\* leaves the cached state, the held locks and the registration timers of
\* every other component unchanged, and it waits for a lock only when that
\* lock is held for its own component.
C20_ComponentsIndependent ==
    [][/\ Cardinality(ChangedComponents) <= 1
       /\ \A t \in Tasks :
             /\ tasks'[t] # tasks[t] => ChangedComponents \subseteq ComponentsOf(t)
             /\ (tasks'[t].pc = "lockWait" /\ tasks[t].pc # "lockWait") =>
                    \A s \in tasks'[t].want \ tasks'[t].got : tasks'[t].c \in heldLocks[s]]_vars

\* calls for two components hold the lock of the same source at the same time
C20_Witness ==
    \E t, u \in Tasks, s \in Sources :
        /\ tasks[t].c # tasks[u].c
        /\ HoldsOwnLock(tasks[t], heldLocks) /\ HoldsOwnLock(tasks[u], heldLocks)
        /\ s \in tasks[t].got /\ s \in tasks[u].got

\* ------------------------------------------------- the registration timer
\* the step in which handleRegistrationTimeout compares the two counts
TimerCompares(t) ==
    /\ tasks[t].op = "timeout" /\ tasks[t].pc = "to3"
    /\ tasks'[t] # tasks[t]

\* C26: when the completion-check timer fires for a source that is not yet
\* registered, then under the source lock: the cached property count equal to
\* num_props sets isRegistered true and emits REGISTERED true; a different
\* count emits REGISTERED false
C26_TimerSettlesRegistration ==
    [][\A t \in Tasks :
          TimerCompares(t) =>
             LET c == tasks[t].c
                 s == tasks[t].msg.source
             IN /\ HoldsOwnLock(tasks[t], heldLocks)
                /\ IF tasks[t].info = Cardinality(tasks[t].regProps)
                   THEN /\ registrationHash'[c][s].isRegistered
                        /\ emitted' = <<RegisteredEv(c, s, TRUE)>>
                   ELSE emitted' = <<RegisteredEv(c, s, FALSE)>>]_vars

\* the step in which a handler that stored its info or its record decides
\* between completing the registration and waiting for more records
StoresWithoutCompleting(t) ==
    /\ tasks'[t] # tasks[t]
    /\ \/ tasks[t].pc \in {"si3", "ai3"} /\ tasks[t].msg.n > 0
       \/ tasks[t].pc = "rp5" /\ tasks[t].info # Cardinality(tasks[t].regProps) + 1

\* C27: every registration-affecting event for a source (an info with
\* num_props > 0, an accepted register/prop record that does not complete the
\* registration) leaves a completion-check timer pending for that
\* (source, componentId)
C27_AffectingEventArmsTimer ==
    [][\A t \in Tasks :
          StoresWithoutCompleting(t) =>
             tasks[t].c \in registrationTimeouts'[tasks[t].msg.source]]_vars

\* the call t takes a step that emits REGISTERED{registered: false}
EmitsNotRegistered(t) ==
    /\ tasks'[t] # tasks[t]
    /\ \E i \in DOMAIN emitted' :
          emitted'[i] = RegisteredEv(tasks[t].c, tasks[t].msg.source, FALSE)

\* C28: REGISTERED{registered:false} is emitted only by the timer callback
\* for a source that is not registered and whose cached property count
\* differs from num_props, or by an app/info or register/prop operation that
\* has just wiped a registered source; a timer callback that finds the source
\* registered emits nothing and writes nothing
C28_NotRegisteredOnlyFromTimerOrWipe ==
    [][/\ \A i \in DOMAIN emitted' :
             (emitted'[i].type = "REGISTERED" /\ ~emitted'[i].flag)
                => \E t \in Tasks : /\ EmitsNotRegistered(t)
                                    /\ emitted'[i].c = tasks[t].c
                                    /\ emitted'[i].source = tasks[t].msg.source
       /\ \A t \in Tasks :
             LET c == tasks[t].c
                 s == tasks[t].msg.source
                 sub == registrationHash[c][s]
             IN /\ EmitsNotRegistered(t) =>
                     \/ /\ tasks[t].op = "timeout"
                        /\ ~sub.isRegistered
                        /\ getInfo(registrationHash[c], s).v # Cardinality(sub.properties)
                     \/ /\ tasks[t].op \in {"appinfo", "regprop"}
                        /\ tasks[t].wasReg
                        /\ ~sub.isRegistered /\ sub.properties = {}
                /\ (tasks[t].op = "timeout" /\ tasks[t].pc = "to1" /\ tasks[t].wasReg
                      /\ tasks'[t] # tasks[t]) =>
                     /\ emitted' = <<>>
                     /\ registrationHash' = registrationHash]_vars

\* the timer callback has just emitted REGISTERED false and ended
C28_Witness ==
    \E c \in Components, s \in Sources :
        /\ emitted = <<RegisteredEv(c, s, FALSE)>>
        /\ c \notin heldLocks[s]
        /\ ~registrationHash[c][s].isRegistered
        /\ \A t \in Tasks : tasks[t].op \notin {"appinfo", "regprop"}

\* handlePropertyRegistration at its compatibility check, for a source that
\* was not registered, with a record that conflicts with a cached one
ConflictsWithCached(t) ==
    /\ tasks[t].op = "regprop" /\ tasks[t].pc = "rp3"
    /\ ~tasks[t].wasReg
    /\ \E r \in registrationHash[tasks[t].c][tasks[t].msg.source].properties :
          \/ r.index = tasks[t].msg.index /\ r.path # tasks[t].msg.path
          \/ r.path = tasks[t].msg.path /\ r.index # tasks[t].msg.index

\* C29: a register/prop record that conflicts with a cached record of a source
\* that is not yet registered leaves the cache unchanged, emits no REGISTERED
\* event, releases the source lock and raises nothing to the caller
C29_ConflictLeavesCacheUnchanged ==
    [][\A t \in Tasks :
          (ConflictsWithCached(t) /\ tasks'[t] # tasks[t]) =>
             /\ registrationHash' = registrationHash
             /\ \A i \in DOMAIN emitted' : emitted'[i].type # "REGISTERED"
             /\ tasks[t].c \notin heldLocks'[tasks[t].msg.source]
             /\ ~rejected'
             /\ tasks'[t].op = "none"]_vars

\* the conflicting record has reached the compatibility check under the lock
C29_Witness ==
    \E t \in Tasks :
        /\ tasks[t].op = "regprop" /\ tasks[t].pc = "rp3"
        /\ ~tasks[t].wasReg
        /\ HoldsOwnLock(tasks[t], heldLocks)
        /\ \E r \in registrationHash[tasks[t].c][tasks[t].msg.source].properties :
              r.index = tasks[t].msg.index /\ r.path # tasks[t].msg.path

\* a handleAppInfo call with a valid payload that found app registered ends
StrayAppInfoEnds(t) ==
    /\ tasks[t].op = "appinfo" /\ tasks[t].wasReg /\ tasks[t].msg.body = "valid"
    /\ tasks[t].pc # "lockWait"
    /\ tasks'[t].op # "appinfo"

\* C30: after a valid app/info for a component whose app source is already
\* registered, REGISTERED{app, false} has been emitted (the operation does
\* not end in the step that wipes), the old app properties are gone, the new
\* info is cached, and app is registered again only if the new num_props is
\* 0, a completion-check timer being pending otherwise
C30_StrayAppInfoReplacesRegistration ==
    [][\A t \in Tasks :
          StrayAppInfoEnds(t) =>
             LET c == tasks[t].c
                 app == registrationHash'[c].app
             IN /\ tasks[t].pc # "ai1"
                /\ app.defined
                /\ app.properties = {}
                /\ app.info = tasks[t].msg.n
                /\ app.isRegistered <=> (tasks[t].msg.n = 0)
                /\ tasks[t].msg.n > 0 => c \in registrationTimeouts'.app]_vars

\* ------------------------------------------------- the property values
\* a numeric element lies in [min, max] of the registration, both ends included
WithinMinMax(e, reg) ==
    e.kind \in {"number", "long"} =>
        /\ reg.hasMin => 2 * e.n >= reg.min2
        /\ reg.hasMax => 2 * e.n <= reg.max2

C22_BoundsCheckIsExact ==
    (parserCall.op = "validate" /\ parserCall.pc = "done")
    => (parserCall.ok <=> \A i \in DOMAIN parserCall.values[1] :
                              WithinMinMax(parserCall.values[1][i], parserCall.reg))

\* C23: for a composite registration (gmbnd_color: 4 fields, gmbnd_led: 6
\* fields) jsonFormatPropertyValue fails whenever a decoded record's length
\* differs from the field count, and otherwise maps position i of each
\* record to the i-th field name of the fixed order
C23_CompositeFormatByPosition ==
    (/\ parserCall.op = "jsonFormat" /\ parserCall.pc = "done"
     /\ parserCall.reg.type \in {"gmbnd_color", "gmbnd_led"})
    => LET order == IF parserCall.reg.type = "gmbnd_color"
                    THEN <<"white", "red", "green", "blue">>
                    ELSE <<"index", "brightness", "white", "red", "green", "blue">>
           value == parserCall.values
       IN IF \E k \in DOMAIN value : Len(value[k]) # Len(order)
          THEN ~parserCall.ok
          ELSE /\ parserCall.ok
               /\ Len(parserCall.result) = Len(value)
               /\ \A k \in DOMAIN value :
                     /\ DOMAIN parserCall.result[k] = {order[i] : i \in DOMAIN order}
                     /\ \A i \in DOMAIN order : parserCall.result[k][order[i]] = value[k][i]

\* two led records of six elements each have been formatted
C23_Witness ==
    /\ parserCall.op = "jsonFormat" /\ parserCall.pc = "done" /\ parserCall.ok
    /\ parserCall.reg.type = "gmbnd_led"
    /\ Len(parserCall.values) = 2
    /\ parserCall.values[1] # parserCall.values[2]
    /\ parserCall.result[2].blue = parserCall.values[2][6]

\* C24: unpackJsonPropertyValue fails whenever its input has more top-level
\* entries than registration.length, for primitive numeric formats and for
\* composite types alike; it never returns a truncated result
C24_TooManyEntriesRejected ==
    (/\ parserCall.op = "unpackJson" /\ parserCall.pc = "done"
     /\ ~isStringFormat(parserCall.reg.format)
     /\ Len(parserCall.json) > parserCall.reg.length)
    => ~parserCall.ok

\* the records parsePropertyValue is to return for a non-string format: the
\* first min(length, floor(payloadBytes / itemSize)) items of the payload,
\* decoded in payload order from offset 0
CompleteItems(payload, reg) ==
    LET itemSize == Len(reg.format)
        n == Min(reg.length, Len(payload) \div itemSize)
    IN [k \in 1..n |-> unpackFrom(reg.format, 1, payload, (k - 1) * itemSize)]

ParsedNonString ==
    /\ parserCall.op = "parse" /\ parserCall.pc = "done"
    /\ ~includesS(parserCall.reg.format)

\* C25: parsePropertyValue on a non-string format returns exactly
\* min(registration.length, floor(payloadBytes / itemSize)) records, decoded
\* in payload order from offset 0; trailing bytes that do not form a
\* complete item are discarded without error
C25_ParseReturnsCompleteItems ==
    ParsedNonString =>
       /\ parserCall.ok
       /\ parserCall.result = CompleteItems(parserCall.payload, parserCall.reg)

\* C25 as amended: the same when the bounds check accepts each of those
\* records; when it rejects one of them, the call fails
C25_ParseReturnsCompleteItemsInBounds ==
    ParsedNonString =>
       LET items == CompleteItems(parserCall.payload, parserCall.reg) IN
       IF \A k \in DOMAIN items : validatePropertyValueBoundaries(items[k], parserCall.reg)
       THEN parserCall.ok /\ parserCall.result = items
       ELSE ~parserCall.ok

\* a payload with more complete items than the registration holds and a
\* trailing byte has been parsed under a minimum and a maximum
C25_Witness ==
    /\ ParsedNonString /\ parserCall.ok
    /\ parserCall.reg.format = <<"B", "b">>
    /\ parserCall.reg.length = 1
    /\ Len(parserCall.payload) = 3
    /\ parserCall.reg.hasMin /\ parserCall.reg.hasMax
    /\ Len(parserCall.result) = 1

\* ------------------------------------------- property value publications
\* the traffic of the runs about publications: a property named p1 and one
\* whose path is the word get, both accepted by validatePropertyPath, their
\* value publications with a payload that parses and one that does not
PubMessages ==
    {SysInfoMsg(0), WillMsg, RegPropMsg("app", "p1", 0), RegPropMsg("app", "get", 1),
     PubMsg("app", "p1"), PubMsg("app", "p2"), PubMsg("app", "get"), BadPubMsg("app", "p1")}

NextPub ==
    \/ \E c \in Components, m \in PubMessages : StartOp(c, m)
    \/ \E t \in Tasks : TaskStep(t)
    \/ \E t \in Tasks, s \in Sources : LockPoll(t, s)
    \/ Settle

SpecPub == Init /\ [][NextPub]_vars

\* the step is a call of MqttApiV2.onMessage with a value publication
PublicationEnters == Len(batch') = Len(batch) + 1 /\ batch'[Len(batch')].msg.topic = "prop/pub"

\* C31: for every property path p that the validator accepts and that is
\* registered for (componentId, source), a message on <source>/prop/pub/:/p
\* whose payload decodes makes the dispatcher emit exactly one PROP_UPDATE
\* carrying path p; if no registration is cached for p, no PROP_UPDATE is
\* emitted and the cache is unchanged.
C31_RegisteredPublicationEmitsUpdate ==
    [][/\ PublicationEnters =>
            LET m == batch'[Len(batch')].msg
                cached == \E c \in Components :
                              /\ registrationHash[c].defined
                              /\ registrationHash[c][m.source].defined
                              /\ \E r \in registrationHash[c][m.source].properties :
                                     r.path = m.path
            IN /\ registrationHash' = registrationHash
               /\ \A i \in 1..Len(emitted') : emitted'[i].type # "PROP_UPDATE"
               /\ (cached /\ m.body = "valid") =>
                      \E t \in Tasks : /\ tasks[t].pc = "idle"
                                        /\ tasks'[t].pc = "pv1" /\ tasks'[t].msg = m
               /\ ~cached => \A t \in Tasks : tasks'[t].pc = "pv1" => tasks[t] = tasks'[t]
       /\ \A t \in Tasks :
              (tasks[t].pc = "pv1" /\ tasks'[t] # tasks[t]) =>
                  emitted' = IF tasks[t].msg.body = "valid"
                             THEN <<PropUpdateEv(tasks[t].c, tasks[t].msg.source,
                                                 tasks[t].msg.path)>>
                             ELSE <<>>]_vars

\* --------------------------------------------- an unsupported api version
\* the traffic of the runs about an identity whose api_ver is not supported
VersionMessages ==
    {UnsupportedSysInfoMsg, SysInfoMsg(0), AppInfoMsg(1), RegPropMsg("app", "p1", 0),
     PubMsg("app", "p1")}

\* the runs start with the announcement of the unsupported version
DeliverVersion(c, m) ==
    /\ delivered = 0 => m = UnsupportedSysInfoMsg
    /\ DeliverEarly(c, m)

NextVersion ==
    \/ \E c \in Components, m \in VersionMessages : DeliverVersion(c, m)
    \/ Progress

SpecVersion == Init /\ [][NextVersion]_vars

\* call t carries a non-identity message that arrived after the unsupported
\* identity, whose onMessage call is over, and resumes from getMQTTAPIVersion
\* with no version; no version is cached and no identity is being handled
AfterUnsupportedIdentity(t) ==
    /\ tasks[t].pc = "gotVersion" /\ tasks[t].ver = NoVersion
    /\ ~isMQTTInitialRegistrationTopic(tasks[t].msg)
    /\ tasks[t].msg.seq > 1
    /\ getMQTTAPIVersion(registrationHash[tasks[t].c]) = NoVersion
    /\ \A u \in Tasks : tasks[u].pc # "idle" => ~isMQTTInitialRegistrationTopic(tasks[u].msg)

\* C32: when a system/info message announces an api_ver this build does not
\* support for a component with no cached api version, subsequent
\* non-identity messages for that component are dropped: they are neither
\* dispatched to MqttApiV2 nor retained in the pending queue.
C32_DroppedAfterUnsupportedVersion ==
    [][\A t \in Tasks :
          (AfterUnsupportedIdentity(t) /\ tasks'[t] # tasks[t]) =>
              /\ pendingMessages'[tasks[t].c] = pendingMessages[tasks[t].c]
              /\ \A i \in 1..Len(emitted') : emitted'[i].type # "RECEIVED_MSG"]_vars

\* ------------------------------------------------- a cache that can fail
\* IHardwareRegistrationCache: cacheMQTTAPIVersion, cacheSystemInfo,
\* cacheApplicationInfo, cacheProperty and setRegistered throw "if the cache
\* fails to store the data".  The call tk is about to make such a write:
callsCacheWrite(tk) ==
    \/ tk.pc = "si2"
    \/ tk.pc \in {"si3", "ai3"} /\ tk.msg.n = 0
    \/ tk.pc = "rp3" /\ ~propertyConflicts(tk.regProps, tk.msg.path, tk.msg.index)
    \/ tk.pc = "rp5" /\ tk.info = Cardinality(tk.regProps) + 1
    \/ tk.pc = "ai1" /\ ~tk.wasReg /\ tk.msg.body = "valid"
    \/ tk.pc = "ai2" /\ tk.msg.body = "valid"

\* the write stores nothing and throws: what the handler does with the error.
\* mutant: completeSuccessfulRegistration emits its event although the write threw
cacheWriteThrows_emits(tk, L) ==
    Release(tk, L, IF tk.pc \in {"si3", "ai3", "rp5"}
                   THEN <<RegisteredEv(tk.c, tk.msg.source, TRUE)>> ELSE <<>>)
cacheWriteThrows(tk, L) ==
    CASE tk.pc \in {"si2", "si3"} ->
            \* handleSystemInfo: the catch around the locked action logs
            Release(tk, L, <<>>)
      [] tk.pc = "ai3" ->
            \* completeSuccessfulRegistration rethrows, handleAppInfo logs
            Release(tk, L, <<>>)
      [] tk.pc = "rp3" ->
            \* cacheProperty: logged, the action returns
            Release(tk, L, <<>>)
      [] tk.pc = "rp5" ->
            \* clearTimeout came first; completeSuccessfulRegistration rethrows
            Release(tk, [L EXCEPT !.timers = clearRegistrationTimeout(@, tk.msg.source, tk.c)],
                    <<>>)
      [] tk.pc = "ai1" ->
            \* cacheApplicationInfo: logged and rethrown
            Release(tk, L, <<>>)
      [] tk.pc = "ai2" ->
            Release(tk, L, <<RegisteredEv(tk.c, "app", FALSE)>>)

\* a suspended call resumes and the cache write it makes throws
CacheWriteThrows(t) ==
    /\ callsCacheWrite(tasks[t])
    /\ Apply(t, tasks[t].c, cacheWriteThrows(tasks[t], Slice(tasks[t].c)))
    /\ UNCHANGED <<delivered, timeouts, lockTimers, callers>>
    /\ UNCHANGED historyVars
    /\ UNCHANGED utilVars

\* the traffic of the runs with a failing cache
FailingMessages ==
    {SysInfoMsg(0), SysInfoMsg(1), WillMsg, AppInfoMsg(0), RegPropMsg("system", "p1", 0)}

NextFailing ==
    \/ \E c \in Components, m \in FailingMessages : Deliver(c, m)
    \/ Progress
    \/ \E t \in Tasks : CacheWriteThrows(t)

SpecFailing == Init /\ [][NextFailing]_vars

\* the step of call t is a failed cache write of handleSystemInfo
IdentityWriteFails(t) ==
    /\ tasks[t].op = "sysinfo" /\ tasks'[t] # tasks[t]
    /\ \/ tasks[t].pc = "si2" /\ tasks'[t].pc # "si3"
       \/ tasks[t].pc = "si3" /\ tasks[t].msg.n = 0 /\ tasks'[t].pc # "si4"

\* C33: when a cache write fails while a valid non-empty system/info is
\* being handled, the dispatcher attempts clearAllCacheForComponentId for
\* that component before returning, so no partially written identity (api
\* version cached without system info) is left behind.
C33_FailedIdentityWriteClearsAll ==
    [][\A t \in Tasks :
          IdentityWriteFails(t) =>
              LET h == registrationHash'[tasks[t].c] IN
              getMQTTAPIVersion(h) # NoVersion => getInfo(h, "system").v # NoInfo]_vars

\* --------------------------------------- REGISTERED true and the flag
\* event e announces a completed registration
IsRegisteredTrue(e) == e.type = "REGISTERED" /\ e.flag = TRUE

\* the step of call t is a setRegistered(c, source, true) that threw
SetRegisteredFails(t) ==
    /\ tasks[t].pc \in {"si3", "ai3", "rp5"} /\ callsCacheWrite(tasks[t])
    /\ tasks'[t] # tasks[t]
    /\ tasks'[t].pc \notin {"si4", "ai4", "rp6"}

\* C39: REGISTERED{registered:true} is emitted for (componentId, source) only
\* after setRegistered(componentId, source, true) has succeeded in the cache
\* within the same lock-holding operation; if that cache write fails, no
\* REGISTERED{registered:true} event is emitted.
C39_RegisteredTrueAfterFlagWritten ==
    [][/\ \A i \in 1..Len(emitted') :
              IsRegisteredTrue(emitted'[i]) =>
                  \E t \in Tasks :
                      /\ tasks[t].pc \in {"si4", "ai4", "rp6"} /\ tasks'[t] # tasks[t]
                      /\ tasks[t].c = emitted'[i].c
                      /\ tasks[t].msg.source = emitted'[i].source
                      /\ emitted'[i].source \in tasks[t].got
                      /\ emitted'[i].c \in heldLocks[emitted'[i].source]
                      /\ registrationHash[emitted'[i].c][emitted'[i].source].isRegistered
       /\ \A t \in Tasks :
              SetRegisteredFails(t) =>
                  \A i \in 1..Len(emitted') : ~IsRegisteredTrue(emitted'[i])]_vars

\* a register/prop call wrote the flag under its lock and is about to emit
C39_Witness ==
    \E t \in Tasks :
        /\ tasks[t].pc = "rp6" /\ tasks[t].msg.source \in tasks[t].got
        /\ registrationHash[tasks[t].c][tasks[t].msg.source].isRegistered

\* --------------------------------------------- JSON format and its inverse
\* C34: unpackJsonPropertyValue is the inverse of jsonFormatPropertyValue:
\* for every registration r and every decoded value v with at most r.length
\* records that jsonFormatPropertyValue accepts,
\* unpackJsonPropertyValue(jsonFormatPropertyValue(v, r), r) equals v.
C34_UnpackJsonInvertsJsonFormat ==
    (/\ parserCall.pc = "done" /\ parserCall.op = "jsonRoundTrip"
     /\ Len(parserCall.values) <= parserCall.reg.length
     /\ jsonFormatPropertyValue(parserCall.values, parserCall.reg).ok) =>
        parserCall.ok /\ parserCall.result = parserCall.values

\* ------------------------------------------------------ both locks at once
\* call t asked for both locks of its component, holds only the lock of
\* source s and waits for the other
HoldsAndWaits(t, s) ==
    /\ tasks[t].pc = "lockWait" /\ tasks[t].want = Sources /\ tasks[t].got = {s}

\* C35: lock acquisition never deadlocks: when operations that each request
\* both the system and the app lock of the same component run concurrently,
\* there is no reachable state in which one operation holds system and waits
\* for app while another holds app and waits for system.
C35_NoCircularWait ==
    \A t, u \in Tasks :
        ~(/\ t # u /\ tasks[t].c = tasks[u].c
          /\ HoldsAndWaits(t, "system") /\ HoldsAndWaits(u, "app"))

\* ------------------------------------------- a timer that outlives a will
\* the runs about a registration timer armed before a will: MqttApiV2.onMessage
\* is called with a system/info that announces one property (it arms the
\* system timer), then with the will, then with a system/info without
\* properties or a system property record
StaleTimerScript(k) ==
    CASE k = 0 -> {SysInfoMsg(1)}
      [] k = 1 -> {WillMsg}
      [] OTHER -> {SysInfoMsg(0), RegPropMsg("system", "p1", 0)}

StaleTimerMessages == {SysInfoMsg(1), WillMsg, SysInfoMsg(0), RegPropMsg("system", "p1", 0)}

StartScripted(c, m) ==
    /\ delivered < MaxEarlyMsgs
    /\ m \in StaleTimerScript(delivered)
    /\ \E t \in Tasks :
          /\ FreeSlot(t)
          /\ Apply(t, c, Entry([IdleTask EXCEPT !.c = c], Slice(c), m))
    /\ delivered' = delivered + 1
    /\ UNCHANGED <<timeouts, lockTimers, callers>>
    /\ UNCHANGED historyVars
    /\ UNCHANGED utilVars

\* the will has run: its clear-all is done and its locks are released
WillIsOver == delivered >= 2 /\ \A t \in Tasks : tasks[t].op # "will"

\* the timer armed before the will expires after the will
StaleTimerFires(c, s) == WillIsOver /\ RegistrationTimerFires(c, s)

NextStale ==
    \/ \E c \in Components, m \in StaleTimerMessages : StartScripted(c, m)
    \/ \E t \in Tasks : TaskStep(t)
    \/ \E t \in Tasks, s \in Sources : LockPoll(t, s)
    \/ \E c \in Components, s \in Sources : StaleTimerFires(c, s)

SpecStale == Init /\ [][NextStale]_vars

\* C36: a will message leaves no live effect of earlier registration timers:
\* a completion-check timer that was armed before the will and fires after
\* the component was cleared emits no REGISTERED event and writes nothing to
\* the cache for that component.
C36_StaleTimerHasNoEffect ==
    [][\A t \in Tasks :
          (tasks[t].mode = "timer" /\ tasks[t].pc # "idle" /\ tasks'[t] # tasks[t]) =>
              /\ \A i \in 1..Len(emitted') : emitted'[i].type # "REGISTERED"
              /\ registrationHash'[tasks[t].c] = registrationHash[tasks[t].c]]_vars

\* ------------------------------------------------ C37: a record sent again
\* the record of the call is already among the properties read at line 440:
\* same path and same index, so the conflict check lets it through
ResendsCachedRecord(t) ==
    /\ tasks[t].op = "regprop" /\ tasks[t].pc \in {"rp3", "rp5"}
    /\ \E r \in tasks[t].regProps :
           r.path = tasks[t].msg.path /\ r.index = tasks[t].msg.index

cachedCount(h, s) == IF h.defined /\ h[s].defined THEN Cardinality(h[s].properties) ELSE 0

\* C37: handling a register/prop record whose path and index equal those of a
\* record already cached for the not-yet-registered source leaves the number
\* of cached properties unchanged, and does not register the source while
\* fewer than num_props distinct properties are cached.
C37_ResendIsIdempotent ==
    [][\A t \in Tasks :
          (ResendsCachedRecord(t) /\ tasks'[t] # tasks[t]) =>
              LET c == tasks[t].c
                  s == tasks[t].msg.source
                  h == registrationHash'[c] IN
              /\ cachedCount(h, s) = cachedCount(registrationHash[c], s)
              /\ (h.defined /\ h[s].defined /\ h[s].isRegistered) =>
                     cachedCount(h, s) >= h[s].info]_vars

\* the part of C37 that the code keeps: the count of cached properties
C37_ResendKeepsCount ==
    [][\A t \in Tasks :
          (ResendsCachedRecord(t) /\ tasks'[t] # tasks[t]) =>
              cachedCount(registrationHash'[tasks[t].c], tasks[t].msg.source)
                  = cachedCount(registrationHash[tasks[t].c], tasks[t].msg.source)]_vars

\* ------------------------------- C38: REGISTERED true as a transition
\* the call writes the flag of its source in completeSuccessfulRegistration
\* (line 519); the event follows in the next segment of the same call
WritesRegisteredTrue(t) ==
    /\ tasks[t].pc \in {"si3", "ai3", "rp5"}
    /\ tasks'[t].pc \in {"si4", "ai4", "rp6"}

\* a will of the component has emitted ONLINE{online:false} and not yet cleared
WillInFlight(c) ==
    \E t \in Tasks : tasks[t].pc # "idle" /\ tasks[t].c = c /\ tasks[t].op = "will"

\* C38: REGISTERED{registered:true} marks a false-to-true transition. The flag
\* of a source is true from the REGISTERED{true} of the source until the reset
\* that comes with its REGISTERED{false} or the clear-all that follows the
\* will's ONLINE{false}; so between two consecutive REGISTERED{true} of a
\* source there is one of the two events only if the call that is about to
\* emit REGISTERED{true} finds the flag false (or a will is on its way).
C38_RegisteredTrueIsTransition ==
    [][\A t \in Tasks :
          (WritesRegisteredTrue(t) /\ ~WillInFlight(tasks[t].c)) =>
              ~isRegistered(registrationHash[tasks[t].c], tasks[t].msg.source).v]_vars

\* the part of C38 that the code keeps: app/info and register/prop check
\* isRegistered first and reset the source, with REGISTERED{false}
C38_AppAndPropAreTransitions ==
    [][\A t \in Tasks :
          (WritesRegisteredTrue(t) /\ tasks[t].op # "sysinfo") =>
              ~isRegistered(registrationHash[tasks[t].c], tasks[t].msg.source).v]_vars

\* ------------------------------ C40: a buffered message is dispatched once
\* the places a message with arrival number k can be in: with the onMessage
\* call that has not looked at it yet, in a pending queue, with a
\* handlePendingMessages loop that took it from the queue, or with MqttApiV2
\* on behalf of such a loop
Arriving(k) == {t \in Tasks : tasks[t].pc = "gotVersion" /\ tasks[t].msg.seq = k}
Queued(k) ==
    {p \in AllComponents \X (1..MaxEarlyMsgs) :
        p[2] <= Len(pendingMessages[p[1]]) /\ pendingMessages[p[1]][p[2]].seq = k}
TakenFromQueue(k) == {t \in Tasks : tasks[t].pc = "drain" /\ tasks[t].next.seq = k}
DispatchedFromQueue(k) ==
    {t \in Tasks : /\ tasks[t].mode = "drain" /\ tasks[t].pc \notin ShellPcs \cup {"idle"}
                   /\ tasks[t].msg.seq = k}
Copies(k) ==
    Cardinality(Arriving(k)) + Cardinality(Queued(k))
        + Cardinality(TakenFromQueue(k)) + Cardinality(DispatchedFromQueue(k))

\* C40: each buffered pending message is dispatched to MqttApiV2 at most
\* once, also when two system/info calls of the component both run
\* handlePendingMessages: a message is in one place at a time, it enters a
\* queue only from the call it arrived with, a loop takes it only from a
\* queue, and it is with MqttApiV2 only for the loop that took it.
C40_PendingDispatchedAtMostOnce ==
    [][\A k \in 1..MaxEarlyMsgs :
          /\ Copies(k)' <= 1
          /\ Arriving(k)' # {} => (Arriving(k) # {} \/ k = delivered')
          /\ Queued(k)' # {} => (Queued(k) # {} \/ Arriving(k) # {})
          /\ TakenFromQueue(k)' # {} => (TakenFromQueue(k) # {} \/ Queued(k) # {})
          /\ DispatchedFromQueue(k)' # {} =>
                 (DispatchedFromQueue(k)' = DispatchedFromQueue(k)
                  \/ DispatchedFromQueue(k)' = TakenFromQueue(k))]_vars

\* two handlePendingMessages loops of one component, started by two
\* system/info calls, each hold a message taken from the queue
C40_Witness ==
    \E t, u \in Tasks :
        /\ t # u /\ tasks[t].c = tasks[u].c
        /\ tasks[t].pc = "drain" /\ tasks[t].next.seq > 0
        /\ tasks[u].pc = "drain" /\ tasks[u].next.seq > 0

====
